---- MODULE Spec2Model ----
(***************************************************************************)
(* Model of adapter/debugsession.py: the DebugSession protocol engine.     *)
(*                                                                         *)
(* One action per request handler (DEBUG_xxx, wrapped by handle_message),  *)
(* per backend notification (handle_debugger_event) and per backend        *)
(* callback (on_breakpoint_hit).  The LLDB backend is modelled by the      *)
(* state it keeps for the engine: its breakpoint list, its breakpoint id   *)
(* allocator, the target's breakpoint-event listener and the queue of      *)
(* notifications already delivered to the event loop.                      *)
(*                                                                         *)
(* Python values: None of an optional string is "", None of an optional    *)
(* integer id is 0 (both are falsy in the code's tests, as None is).       *)
(***************************************************************************)
EXTENDS Integers, Sequences, FiniteSets, TLC

(***************************************************************************)
(* Bounds of the model.                                                    *)
(***************************************************************************)
\* Breakpoint ids the backend hands out: 1..MaxBpId.
MaxBpId == 3
\* Longest breakpoint list of one request.
MaxReqLen == 2
\* Longest queue of backend notifications waiting in the event loop.
MaxEvents == 2
\* Sequence numbers a client uses for its requests: 1..MaxSeq.
MaxSeq == 2
\* Reverse requests the engine issues: request_seq stays <= MaxReverse + 1.
MaxReverse == 2
\* Handles allocated in one generation.
MaxHandles == 6
\* Responses sent for one deferred launch request.
MaxResponses == 2
\* Resumes of the inferior.
MaxEpoch == 2

(***************************************************************************)
(* Expression types (module constants SIMPLE, PYTHON, NATIVE).             *)
(***************************************************************************)
SIMPLE == "simple"
PYTHON == "python"
NATIVE == "native"

\* A string that may start with one of the dialect prefixes: prefix \o text.
Expr(prefix, text) == [prefix |-> prefix, text |-> text]
NoExpr == Expr("", "")
Truthy(e) == e # NoExpr

\* get_expression_type: classify by explicit prefix, else the launch default.
get_expression_type(expr, launch) ==
    IF expr.prefix = "/nat " THEN [ty |-> NATIVE, expr |-> expr.text]
    ELSE IF expr.prefix = "/py " THEN [ty |-> PYTHON, expr |-> expr.text]
    ELSE IF expr.prefix = "/se " THEN [ty |-> SIMPLE, expr |-> expr.text]
    ELSE [ty |-> launch.expressions, expr |-> expr.text]

\* Texts Python's compile() rejects (in 'eval' and in 'exec' mode).
SyntaxErrors == {"x >"}

\* A compiled condition evaluator (the eval_condition closure); None is NoCond.
NoCond == [ty |-> "None", code |-> ""]
\* make_python_expression_bpcond / make_simple_expression_bpcond
make_expression_bpcond(ty, text) ==
    IF text \in SyntaxErrors THEN NoCond ELSE [ty |-> ty, code |-> text]

\* int(ignore_count_str): the strings that parse, and their values.
IntStrings == {"0", "1", "2"}
ParseInt(s) == CASE s = "0" -> 0 [] s = "1" -> 1 [] s = "2" -> 2 [] OTHER -> 0

(***************************************************************************)
(* Messages sent to the client (send_message).                             *)
(***************************************************************************)
Msg(type, name, seq, success, body) ==
    [type |-> type, name |-> name, seq |-> seq, success |-> success, body |-> body]
NoBody == [kind |-> "None"]
\* send_event: seq is always 0
Event(name, body) == Msg("event", name, 0, TRUE, body)
ConsoleMsgMutantSilent(output, category) == << >>
\* console_msg: nothing is sent for an empty output
console_msg(output, category) ==
    IF output = "" THEN << >>
    ELSE << Event("output", [kind |-> "output", category |-> category, output |-> output]) >>
ConsoleErrMutantStdout(output) == console_msg(output, "stdout")
console_err(output) == console_msg(output, "stderr")

ErrorBody(format) == [kind |-> "error", format |-> format, showUser |-> TRUE]

\* The exceptions a handler can end with.
NoExc == "none"
UserError == "UserError"
UserErrorNoConsole == "UserError(no_console)"
\* The UserErrors whose message matters: the fixed messages of a failed launch
\* and attach, and the error text of the backend (error.GetCString())
LaunchFailed == "Process launch failed."
AttachFailed == "Failed to attach to the process."
GetCString == "error text of the backend"
UserErrors == {UserError, LaunchFailed, AttachFailed, GetCString}
\* str(result) of a UserError: its message
StrMutantNoMessage(exc) == "UserError"
str(exc) == IF exc = UserErrorNoConsole THEN "UserError" ELSE exc
InternalExc == "Exception"
AsyncResponse == "AsyncResponse"

\* send_response(response, result): result is None/dict (exc = NoExc) or the exception
send_response(cmd, seq, exc, body) ==
    IF exc = NoExc
    THEN << Msg("response", cmd, seq, TRUE, body) >>
    ELSE IF exc \in UserErrors \cup {UserErrorNoConsole}
    THEN (IF exc # UserErrorNoConsole THEN console_err("Error: " \o str(exc)) ELSE << >>)
         \o << Msg("response", cmd, seq, FALSE, ErrorBody(str(exc))) >>
    ELSE console_err("Internal debugger error")
         \o << Msg("response", cmd, seq, FALSE, ErrorBody("Internal debugger error")) >>

RouterMutantDropsError(cmd, seq, result, exc, body, out) ==
    IF exc # NoExc THEN out
    ELSE IF result = AsyncResponse THEN out
    ELSE out \o send_response(cmd, seq, exc, body)
\* handle_message, request branch: what is sent for a handler that sent `out`,
\* returned `result` (with `body`) or raised `exc`.
handle_request(cmd, seq, result, exc, body, out) ==
    IF exc # NoExc THEN out \o send_response(cmd, seq, exc, NoBody)
    ELSE IF result = AsyncResponse THEN out
    ELSE out \o send_response(cmd, seq, NoExc, body)

(***************************************************************************)
(* Breakpoints.                                                            *)
(***************************************************************************)
Lines == {10, 15, 20}
Paths == {"a.c", "b.c"}
\* Source references of disassembly views: one live, one stale.
LiveRef == "dasm1"
StaleRef == "dasm9"
FileIds == Paths \cup {LiveRef}
FnNames == {"main", "/re ^f"}

\* adapterData of a source: the address range of a disassembly view and its
\* str(line) -> address table, a set of <<key, address>>; None (and {}) is NoAD.
NoAD == [start |-> 0, end |-> 0, lines |-> {}]

\* class BreakpointInfo
BreakpointInfo(id) ==
    [id |-> id, exception_bp |-> FALSE, condition |-> NoCond, log_message |-> "",
     address |-> 0, adapter_data |-> NoAD, ignore_count |-> 0]

\* A breakpoint object of the backend (SBBreakpoint): what the engine sets on it.
\* locs: the mapped local path of each resolved location, and whether it is enabled.
BackendBp(kind, locs) ==
    [kind |-> kind, condition |-> "", ignore_count |-> 0, callback |-> "", locs |-> locs]

\* The debug information of the program: the locations the backend resolves for
\* (file name, line): line 10 lies in the requested file, line 15 only in another
\* file of the same base name, line 20 has no code.
Locations(file_path, line) ==
    IF line = 10 THEN << file_path >>
    ELSE IF line = 15 THEN << "elsewhere" >>
    ELSE << >>

\* dasm.address_by_line_num of the live disassembly view
address_by_line_num(line) == 4096 + line
\* dasm.line_num_by_address
line_num_by_address(addr) == addr - 4096

Remove(f, k) == [x \in DOMAIN f \ {k} |-> f[x]]
Put(f, k, v) == [x \in DOMAIN f \cup {k} |-> IF x = k THEN v ELSE f[x]]
\* SBBreakpoint.GetID of target.FindBreakpointByID(bp_id): 0 for an invalid breakpoint
GetID(backend, bp_id) == IF bp_id \in DOMAIN backend THEN bp_id ELSE 0
Call(f, arg) == [f |-> f, arg |-> arg]

VARIABLES
    launch_args,       \* self.launch_args: [set |-> FALSE] is None
    do_launch,         \* self.do_launch: "unset" or the name of the completion
    target,            \* self.target is not None
    process,           \* self.process: "None", "stopped", "running", "exited"
    line_breakpoints,  \* self.line_breakpoints: [file_id -> [line -> bp id or 0]]
    fn_breakpoints,    \* self.fn_breakpoints: [name -> bp id or 0]
    breakpoints,       \* self.breakpoints: [bp id -> BreakpointInfo]
    backend_bps,       \* the target's breakpoint list: [bp id -> BackendBp]
    next_bp_id,        \* the id the backend gives its next breakpoint
    bp_listener,       \* event_listener listens to eBroadcastBitBreakpointChanged
    event_queue,       \* notifications dispatched to handle_debugger_event, in order
    var_refs,          \* self.var_refs: the HandleTree
    epoch,             \* number of resumes the backend has been told to make
    request_seq,       \* self.request_seq
    pending_requests,  \* self.pending_requests: set of seq with a callback
    cb_calls,          \* observer: [seq -> times its on_complete was invoked]
    known_threads,     \* self.known_threads
    event_loop,        \* self.event_loop: "running" or "stopped"
    source_map,        \* self.source_map: [set |-> FALSE] is None, else the rules
    filespec_cache,    \* self.filespec_cache: [filespec key -> local path or None]
    suppress_missing_sources,  \* self.suppress_missing_sources
    files,             \* the local files that exist (os.path.isfile)
    display_settings,  \* self.global_format, self.show_disassembly, self.deref_pointers
    executing,         \* the threads that are inside a step: "loop", "callback"
    last               \* observer: what the last step did

vars == << launch_args, do_launch, target, process, line_breakpoints, fn_breakpoints,
           breakpoints, backend_bps, next_bp_id, bp_listener, event_queue, var_refs,
           epoch, request_seq, pending_requests, cb_calls, known_threads, event_loop,
           source_map, filespec_cache, suppress_missing_sources, files,
           display_settings, executing, last >>

bp_vars == << line_breakpoints, fn_breakpoints, breakpoints, backend_bps, next_bp_id,
              bp_listener, event_queue >>
launch_vars == << launch_args, do_launch, target, process >>
handle_vars == << var_refs, epoch >>
reverse_vars == << request_seq, pending_requests, cb_calls >>
loop_vars == << known_threads, event_loop >>
view_vars == << source_map, filespec_cache, suppress_missing_sources, files,
               display_settings, executing >>

NoLaunchArgs ==
    [set |-> FALSE, noDebug |-> FALSE, expressions |-> SIMPLE, response |-> 0,
     responses |-> 0, terminal |-> FALSE, kind |-> "", exitCommands |-> << >>,
     sourceMap |-> << >>]

\* The footprint of a step: the operation, the request's seq, how the handler
\* ended, the messages sent and the backend calls made, in order.
Last(op, seq, exc, sent, calls, arg) ==
    [op |-> op, seq |-> seq, exc |-> exc, escaped |-> FALSE, sent |-> sent,
     calls |-> calls, arg |-> arg]

(***************************************************************************)
(* The working state of a breakpoint handler: the registry, the backend's  *)
(* breakpoint list and id allocator, whether the listener is registered    *)
(* and the notification queue, the index being reconciled, the response    *)
(* entries, the backend calls, the console output and the exception that   *)
(* ended the handler.                                                      *)
(***************************************************************************)
Work(idx) ==
    [breakpoints |-> breakpoints, backend_bps |-> backend_bps, next_bp_id |-> next_bp_id,
     listening |-> bp_listener, queue |-> event_queue, idx |-> idx,
     result |-> << >>, calls |-> << >>, out |-> << >>, exc |-> NoExc]

\* The handler ends with the exception exc.
Raise(W, exc) == [W EXCEPT !.exc = exc]

BpEvent(type, id) == [kind |-> "breakpoint", type |-> type, id |-> id]
\* The target broadcasts a breakpoint event to the listeners registered at that time.
Broadcast(W, type, id) ==
    [W EXCEPT !.queue = IF W.listening THEN Append(@, BpEvent(type, id)) ELSE @]

DisableMutantKeepsListening(W) ==
    [W EXCEPT !.calls = Append(@, Call("RemoveListener", 0))]
\* disable_bp_events / enable_bp_events
disable_bp_events(W) ==
    [W EXCEPT !.listening = FALSE, !.calls = Append(@, Call("RemoveListener", 0))]
EnableMutantNotAfterRaise(W) ==
    IF W.exc # NoExc THEN W
    ELSE [W EXCEPT !.listening = TRUE, !.calls = Append(@, Call("AddListener", 0))]
enable_bp_events(W) ==
    [W EXCEPT !.listening = TRUE, !.calls = Append(@, Call("AddListener", 0))]

\* target.BreakpointDelete(bp_id): False, and nothing happens, for an unknown id
BreakpointDelete(W, bp_id) ==
    IF bp_id \in DOMAIN W.backend_bps
    THEN Broadcast([W EXCEPT !.calls = Append(@, Call("BreakpointDelete", bp_id)),
                             !.backend_bps = Remove(@, bp_id)],
                   "removed", bp_id)
    ELSE [W EXCEPT !.calls = Append(@, Call("BreakpointDelete", bp_id))]

\* target.BreakpointCreateByLocation / ByAddress / ByName / ByRegex / ForException
BreakpointCreate(W, how, arg, kind, locs) ==
    Broadcast([W EXCEPT !.backend_bps = Put(@, W.next_bp_id, BackendBp(kind, locs)),
                        !.next_bp_id = @ + 1,
                        !.calls = Append(@, Call(how, arg))],
              "added", W.next_bp_id)

UnregisterMutantKeepsInfo(W, bp_id) == W
\* self.breakpoints[bp_id] = bp_info
Register(W, bp_info) == [W EXCEPT !.breakpoints = Put(@, bp_info.id, bp_info)]
\* del self.breakpoints[bp_id]: KeyError for an id without a BreakpointInfo
Unregister(W, bp_id) ==
    IF bp_id \in DOMAIN W.breakpoints THEN [W EXCEPT !.breakpoints = Remove(@, bp_id)]
    ELSE Raise(W, InternalExc)

(***************************************************************************)
(* set_bp_condition(bp, req), in the order of its statements.              *)
(***************************************************************************)
\* The previous compiled condition and ignore count are dropped, when there are any.
ResetCondition(W, id) ==
    IF W.breakpoints[id].condition # NoCond \/ W.breakpoints[id].ignore_count # 0
    THEN [W EXCEPT !.breakpoints[id].condition = NoCond,
                   !.breakpoints[id].ignore_count = 0,
                   !.backend_bps[id].condition = "",
                   !.backend_bps[id].callback = ""]
    ELSE W

\* The request's condition: set on the backend when native, compiled otherwise.
ApplyCondition(W, id, cond, launch) ==
    LET cls == get_expression_type(cond, launch)
    IN IF ~Truthy(cond) THEN W
       ELSE IF cls.ty = NATIVE THEN [W EXCEPT !.backend_bps[id].condition = cls.expr]
       ELSE IF make_expression_bpcond(cls.ty, cls.expr) = NoCond
       THEN [W EXCEPT !.out = @ \o console_err("Could not set breakpoint condition")]
       ELSE [W EXCEPT !.breakpoints[id].condition =
                          make_expression_bpcond(cls.ty, cls.expr)]

\* The request's hitCondition
ApplyHitCondition(W, id, hit) ==
    IF hit = "" THEN W
    ELSE IF hit \in IntStrings
    THEN [W EXCEPT !.breakpoints[id].ignore_count = ParseInt(hit),
                   !.backend_bps[id].ignore_count = ParseInt(hit)]
    ELSE [W EXCEPT !.out = @ \o console_err("Could not parse ignore count as integer")]

\* The request's logMessage
ApplyLogMessage(W, id, message) == [W EXCEPT !.breakpoints[id].log_message = message]

\* The script callback is set when the breakpoint has anything to evaluate.
SetCallback(W, id) ==
    IF \/ W.breakpoints[id].condition # NoCond
       \/ W.breakpoints[id].log_message # ""
       \/ W.breakpoints[id].ignore_count # 0
    THEN [W EXCEPT !.backend_bps[id].callback = "on_breakpoint_hit"]
    ELSE W

\* bp is the breakpoint found or created for bp_id.
set_bp_condition(W, bp_id, req, launch) ==
    IF GetID(W.backend_bps, bp_id) \notin DOMAIN W.breakpoints
    THEN Raise(W, InternalExc)  \* self.breakpoints[bp.GetID()]: KeyError
    ELSE SetCallback(
           ApplyLogMessage(
             ApplyHitCondition(
               ApplyCondition(ResetCondition(W, bp_id), bp_id, req.condition, launch),
               bp_id, req.hitCondition),
             bp_id, req.logMessage),
           bp_id)

(***************************************************************************)
(* Reconciliation of an index (a file's lines, or the function names).     *)
(***************************************************************************)
\* One indexed breakpoint that is absent from the request is deleted.
DeleteIndexed(W, key) ==
    Unregister([BreakpointDelete(W, W.idx[key]) EXCEPT !.idx[key] = 0], W.idx[key])

\* Existing breakpoints that were removed from the request, visited in the order
\* the index dictionary yields them (the loops of DEBUG_setBreakpoints and of
\* DEBUG_setFunctionBreakpoints).
RECURSIVE clear_removed(_, _, _)
clear_removed(W, order, requested) ==
    IF order = << >> \/ W.exc # NoExc THEN W
    ELSE clear_removed(IF Head(order) \in requested THEN W
                       ELSE DeleteIndexed(W, Head(order)),
                       Tail(order), requested)

\* An entry of the response.  verified is "True", "False" or "absent"; line 0
\* and source "" stand for an absent field.
BpResp(id, verified, line, source, adapter_data) ==
    [id |-> id, verified |-> verified, line |-> line, source |-> source,
     adapterData |-> adapter_data]

\* The id of the breakpoint for an index key: the indexed one, or the one the
\* backend creates next.
IdFor(W, key) == IF W.idx[key] # 0 THEN W.idx[key] ELSE W.next_bp_id

\* file_bps[line] = bp_id; result.append(bp_resp)
Record(W, key, id, bp_resp) ==
    IF W.exc # NoExc THEN W
    ELSE [W EXCEPT !.idx[key] = id, !.result = Append(@, bp_resp)]

\* The locations of a new source breakpoint: disabled unless the mapped local path
\* is the requested file.
FilterLocations(locs, file_path, line) ==
    [i \in DOMAIN locs |->
        [path |-> locs[i], line |-> line, enabled |-> locs[i] = file_path]]

\* set_source_breakpoints, one request: the breakpoint is looked up or created
FindOrCreateByLocation(W, line, file_path) ==
    IF W.idx[line] # 0 THEN W
    ELSE Register(BreakpointCreate(W, "BreakpointCreateByLocation", line, "location",
                                   FilterLocations(Locations(file_path, line),
                                                   file_path, line)),
                  BreakpointInfo(W.next_bp_id))

\* set_source_breakpoints, one request: its response entry
SourceBpResp(W, line, file_path) ==
    IF W.idx[line] # 0 THEN BpResp(W.idx[line], "True", 0, "", NoAD)
    ELSE IF \E i \in DOMAIN Locations(file_path, line) :
              Locations(file_path, line)[i] = file_path
    THEN BpResp(W.next_bp_id, "True", line, file_path, NoAD)
    ELSE BpResp(W.next_bp_id, "absent", 0, "", NoAD)

RECURSIVE set_source_breakpoints(_, _, _, _)
set_source_breakpoints(W, req_bps, file_path, launch) ==
    IF req_bps = << >> \/ W.exc # NoExc THEN W
    ELSE set_source_breakpoints(
             Record(set_bp_condition(
                        FindOrCreateByLocation(W, Head(req_bps).line, file_path),
                        IdFor(W, Head(req_bps).line), Head(req_bps), launch),
                    Head(req_bps).line, IdFor(W, Head(req_bps).line),
                    SourceBpResp(W, Head(req_bps).line, file_path)),
             Tail(req_bps), file_path, launch)

\* addr_from_line of the adapterData branch: line_addresses[str(line)]
\* (the table's keys are strings)
HasLine(adapter_data, line) == \E p \in adapter_data.lines : p[1] = ToString(line)
LineAddressMutantAnyEntry(adapter_data, line) ==
    (CHOOSE p \in adapter_data.lines : \A q \in adapter_data.lines : p[2] <= q[2])[2]
LineAddress(adapter_data, line) ==
    (CHOOSE p \in adapter_data.lines : p[1] = ToString(line))[2]

\* The request's source: path ("" when absent), sourceReference ("" when absent)
\* and adapterData.
Source(path, ref, adapter_data) ==
    [path |-> path, sourceReference |-> ref, adapterData |-> adapter_data]
SourceName(source) ==
    IF source.sourceReference # "" THEN source.sourceReference ELSE source.path
\* The adapterData the engine attaches to the source of a live disassembly view
\* (dasm.start_address, dasm.end_address and the requested lines' addresses).
MakeAdapterData(lines) ==
    [start |-> address_by_line_num(0), end |-> address_by_line_num(4096),
     lines |-> {<< ToString(l), address_by_line_num(l) >> : l \in lines}]

\* addr_from_line(line)
AddrFromLine(live, adapter_data, line) ==
    IF live THEN address_by_line_num(line) ELSE LineAddress(adapter_data, line)

\* set_dasm_breakpoints, one request: the breakpoint is looked up or created
FindOrCreateByAddress(W, line, addr, adapter_data) ==
    IF W.idx[line] # 0 THEN W
    ELSE Register(BreakpointCreate(W, "BreakpointCreateByAddress", addr, "address",
                                   << [path |-> "None",
                                       line |-> line_num_by_address(addr),
                                       enabled |-> TRUE] >>),
                  [BreakpointInfo(W.next_bp_id) EXCEPT !.address = addr,
                                                       !.adapter_data = adapter_data])

\* set_dasm_breakpoints, one request: its response entry
DasmBpResp(W, line, source, verified) ==
    BpResp(IdFor(W, line), verified, IF W.idx[line] # 0 THEN 0 ELSE line,
           SourceName(source), source.adapterData)

RECURSIVE set_dasm_breakpoints(_, _, _, _, _, _)
set_dasm_breakpoints(W, req_bps, live, source, adapter_data, launch) ==
    IF req_bps = << >> \/ W.exc # NoExc THEN W
    ELSE IF W.idx[Head(req_bps).line] = 0 /\ ~live
            /\ ~HasLine(adapter_data, Head(req_bps).line)
    THEN Raise(W, InternalExc)  \* line_addresses[str(line)]: KeyError
    ELSE set_dasm_breakpoints(
             Record(set_bp_condition(
                        FindOrCreateByAddress(
                            W, Head(req_bps).line,
                            AddrFromLine(live, adapter_data, Head(req_bps).line),
                            adapter_data),
                        IdFor(W, Head(req_bps).line), Head(req_bps), launch),
                    Head(req_bps).line, IdFor(W, Head(req_bps).line),
                    DasmBpResp(W, Head(req_bps).line, source,
                               IF live THEN "True" ELSE "False")),
             Tail(req_bps), live, source, adapter_data, launch)

\* All orders in which a dictionary can yield the keys S.
Orders(S) ==
    {o \in [1..Cardinality(S) -> S] : \A i, j \in 1..Cardinality(S) : i # j => o[i] # o[j]}
Present(idx) == {k \in DOMAIN idx : idx[k] # 0}
ReqLines(req_bps) == {req_bps[i].line : i \in DOMAIN req_bps}

\* What a handler hands back: its working state, the index it worked on ("" when
\* it reached none), and the value it returned.
Ret(W, file_id, result, body) ==
    [W |-> W, file_id |-> file_id, result |-> result, body |-> body]
RetBreakpoints(W, file_id) ==
    Ret(W, file_id, "dict", [kind |-> "breakpoints", breakpoints |-> W.result])

\* The file id DEBUG_setBreakpoints works on: "" when it cannot be computed.
FileIdMutantOneIndex(source) == "a.c"
FileIdOf(source) ==
    IF source.sourceReference = LiveRef THEN LiveRef ELSE source.path

\* self.line_breakpoints.setdefault(file_id, {})
IndexOf(source) ==
    IF FileIdOf(source) \in FileIds THEN line_breakpoints[FileIdOf(source)]
    ELSE [l \in Lines |-> 0]

\* DEBUG_setBreakpoints: added or updated breakpoints
AddOrUpdate(W, source, req_bps, launch) ==
    IF source.sourceReference = LiveRef
    THEN set_dasm_breakpoints(
             W, req_bps, TRUE,
             [source EXCEPT !.adapterData = MakeAdapterData(ReqLines(req_bps))],
             NoAD, launch)
    ELSE IF source.adapterData # NoAD
    THEN set_dasm_breakpoints(W, req_bps, FALSE, source, source.adapterData, launch)
    ELSE set_source_breakpoints(W, req_bps, source.path, launch)

\* DEBUG_setBreakpoints(args); order: the order file_bps.items() yields the lines
setBreakpoints(source, req_bps, order) ==
    LET idx0 == IndexOf(source)
    IN IF ~launch_args.set
       THEN Ret(Raise(Work(idx0), InternalExc), "", "None", NoBody)
       ELSE IF launch_args.noDebug
       THEN Ret(Work(idx0), "", "None", NoBody)
       ELSE IF ~target  \* disable_bp_events and enable_bp_events raise on self.target
       THEN Ret(Raise(Work(idx0), InternalExc), "", "None", NoBody)
       ELSE IF FileIdOf(source) = ""  \* from_lldb_str / normcase of a missing path
       THEN Ret(enable_bp_events(Raise(disable_bp_events(Work(idx0)), InternalExc)),
                "", "None", NoBody)
       ELSE RetBreakpoints(
                enable_bp_events(
                    AddOrUpdate(clear_removed(disable_bp_events(Work(idx0)), order,
                                              ReqLines(req_bps)),
                                source, req_bps, launch_args)),
                FileIdOf(source))

\* make_bp_resp(bp): the verification result of a breakpoint of the backend.
\* A resolved location without a local source file (path "None") lies in the
\* disassembly view (LiveRef, or the view rebuilt from the adapterData).
make_bp_resp(W, bp_id) ==
    LET id == GetID(W.backend_bps, bp_id)
    IN IF id \notin DOMAIN W.breakpoints THEN BpResp(id, "absent", 0, "", NoAD)
       ELSE
       LET bp_info == W.breakpoints[id]
           locs == W.backend_bps[id].locs
           shown == {i \in DOMAIN locs : locs[i].enabled /\ locs[i].path # "None"}
           first == CHOOSE i \in shown : \A j \in shown : i <= j
       IN IF bp_info.address = 0 /\ shown # {}
          THEN BpResp(id, "True", locs[first].line, locs[first].path, NoAD)
          ELSE IF Len(locs) > 0 /\ locs[1].path = "None"
          THEN BpResp(id, "True", locs[1].line, LiveRef, bp_info.adapter_data)
          ELSE BpResp(id, "False", 0, "", NoAD)

\* The locations the backend resolves for a function name or pattern.
FnLocations(name) ==
    IF name = "main" THEN << [path |-> "a.c", line |-> 10, enabled |-> TRUE] >>
    ELSE << >>

\* DEBUG_setFunctionBreakpoints, one request: a breakpoint is created, indexed
\* and given the request's settings only when the name is not indexed yet.
FindOrCreateByName(W, req, launch) ==
    IF W.idx[req.name] # 0 THEN W
    ELSE set_bp_condition(
             [Register(BreakpointCreate(W, IF req.name = "/re ^f"
                                           THEN "BreakpointCreateByRegex"
                                           ELSE "BreakpointCreateByName",
                                        0, "name", FnLocations(req.name)),
                       BreakpointInfo(W.next_bp_id))
              EXCEPT !.idx[req.name] = W.next_bp_id],
             W.next_bp_id, req, launch)

\* result.append(self.make_bp_resp(bp))
AppendResp(W, bp_id) ==
    IF W.exc # NoExc THEN W ELSE [W EXCEPT !.result = Append(@, make_bp_resp(W, bp_id))]

RECURSIVE set_fn_breakpoints(_, _, _)
set_fn_breakpoints(W, req_bps, launch) ==
    IF req_bps = << >> \/ W.exc # NoExc THEN W
    ELSE set_fn_breakpoints(AppendResp(FindOrCreateByName(W, Head(req_bps), launch),
                                       IdFor(W, Head(req_bps).name)),
                            Tail(req_bps), launch)

ReqNames(req_bps) == {req_bps[i].name : i \in DOMAIN req_bps}

\* DEBUG_setFunctionBreakpoints(args); order: the order fn_breakpoints.items()
\* yields the names
setFunctionBreakpoints(req_bps, order) ==
    IF ~launch_args.set
    THEN Ret(Raise(Work(fn_breakpoints), InternalExc), "", "None", NoBody)
    ELSE IF launch_args.noDebug
    THEN Ret(Work(fn_breakpoints), "", "None", NoBody)
    ELSE IF ~target
    THEN Ret(Raise(Work(fn_breakpoints), InternalExc), "", "None", NoBody)
    ELSE RetBreakpoints(
             enable_bp_events(
                 set_fn_breakpoints(
                     clear_removed(disable_bp_events(Work(fn_breakpoints)), order,
                                   ReqNames(req_bps)),
                     req_bps, launch_args)),
             "fn")

\* The exception breakpoints of the registry.
ExceptionBps(registry) == {id \in DOMAIN registry : registry[id].exception_bp}

DeleteExceptionMutantKeeps(W, exc_bps) == W
\* DEBUG_setExceptionBreakpoints: the current exception breakpoints are removed
RECURSIVE delete_exception_bps(_, _)
delete_exception_bps(W, exc_bps) ==
    IF exc_bps = << >> THEN W
    ELSE delete_exception_bps(
             [BreakpointDelete(W, Head(exc_bps)) EXCEPT
                 !.breakpoints = Remove(@, Head(exc_bps))],
             Tail(exc_bps))

ExceptionFilters == {"cpp_throw", "cpp_catch", "rust_panic"}

\* A breakpoint set_exception_breakpoints returns is registered as exception_bp.
RegisterException(W, wanted, how) ==
    IF ~wanted THEN W
    ELSE Register(BreakpointCreate(W, how, 0, "exception", << >>),
                  [BreakpointInfo(W.next_bp_id) EXCEPT !.exception_bp = TRUE])

\* set_exception_breakpoints(filters) and the registration of what it returns
set_exception_breakpoints(W, filters) ==
    RegisterException(
        RegisterException(W, "cpp_throw" \in filters \/ "cpp_catch" \in filters,
                          "BreakpointCreateForException"),
        "rust_panic" \in filters, "BreakpointCreateByName")

\* DEBUG_setExceptionBreakpoints(args); order: the order breakpoints.values()
\* yields the exception breakpoints
setExceptionBreakpoints(filters, order) ==
    IF ~launch_args.set
    THEN Ret(Raise(Work(<< >>), InternalExc), "", "None", NoBody)
    ELSE IF launch_args.noDebug
    THEN Ret(Work(<< >>), "", "None", NoBody)
    ELSE IF ~target
    THEN Ret(Raise(Work(<< >>), InternalExc), "", "None", NoBody)
    ELSE Ret(enable_bp_events(
                 set_exception_breakpoints(
                     delete_exception_bps(disable_bp_events(Work(<< >>)), order),
                     filters)),
             "exc", "None", NoBody)

(***************************************************************************)
(* Backend notifications (handle_debugger_event).                          *)
(***************************************************************************)
\* A thread of the process as the backend reports it: its id, its stop reason,
\* the breakpoint id of a breakpoint stop (GetStopReasonDataAtIndex(0)) and its
\* stop description.
Thread(tid, reason, data, description) ==
    [tid |-> tid, reason |-> reason, data |-> data, description |-> description]
\* The process when an event is handled: its threads in the backend's enumeration
\* order and the index of the selected thread (0: the selected thread is invalid).
ProcessState(threads, selected) == [threads |-> threads, selected |-> selected]
\* A process with one thread, stopped at breakpoint bp_id or (bp_id = 0) by a signal
StopAt(bp_id) ==
    ProcessState(<< IF bp_id # 0 THEN Thread(1, "breakpoint", bp_id, "breakpoint")
                    ELSE Thread(1, "signal", 0, "signal") >>, 1)
\* A process event: a state change (type is the new state), or output of the
\* inferior (type "stdout" or "stderr"; stream: the bytes the backend has
\* buffered, avail of them from offset pos; late: the bytes the inferior writes
\* while the first chunk is handled).
Stream(pos, avail) == [pos |-> pos, avail |-> avail]
StateEvent(type, restarted, proc, exit_code) ==
    [kind |-> "process", type |-> type, restarted |-> restarted, proc |-> proc,
     exit_code |-> exit_code, stream |-> Stream(0, 0), late |-> 0]
StdioEvent(type, avail, late) ==
    [kind |-> "process", type |-> type, restarted |-> FALSE,
     proc |-> ProcessState(<< >>, 0), exit_code |-> 0, stream |-> Stream(0, avail),
     late |-> late]
ProcessEvent(type, id) == StateEvent(type, FALSE, StopAt(id), 0)

\* notify_breakpoint(event): the registry afterwards, what is sent, and whether
\* the handler ended with an exception.
BreakpointEvent(reason, bp_resp) ==
    Event("breakpoint", [kind |-> "breakpoint", reason |-> reason, breakpoint |-> bp_resp])
Registry(registry, backend) ==
    [breakpoints |-> registry, backend_bps |-> backend]
\* make_bp_resp of the breakpoint an event carries: the event keeps the
\* breakpoint and its id also after the backend deleted it, without locations.
EventBpResp(registry, backend, bp_id) ==
    IF bp_id \in DOMAIN backend THEN make_bp_resp(Registry(registry, backend), bp_id)
    ELSE IF bp_id \in DOMAIN registry THEN BpResp(bp_id, "False", 0, "", NoAD)
    ELSE BpResp(bp_id, "absent", 0, "", NoAD)
notify_breakpoint(registry, backend, ev) ==
    IF ev.type = "added"
    THEN [breakpoints |-> Put(registry, ev.id, BreakpointInfo(ev.id)), exc |-> NoExc,
          out |-> << BreakpointEvent(
                         "new",
                         EventBpResp(Put(registry, ev.id, BreakpointInfo(ev.id)),
                                     backend, ev.id)) >>]
    ELSE IF ev.type = "resolved"
    THEN [breakpoints |-> registry, exc |-> NoExc,
          out |-> << BreakpointEvent("changed", EventBpResp(registry, backend, ev.id)) >>]
    ELSE [breakpoints |-> IF ev.id \in DOMAIN registry THEN Remove(registry, ev.id)
                          ELSE registry,
          exc |-> IF ev.id \in DOMAIN registry THEN NoExc ELSE InternalExc,
          out |-> << BreakpointEvent("removed", BpResp(ev.id, "absent", 0, "", NoAD)) >>]

\* update_threads: thread events for the threads that exited and that started
\* since the last stop
RECURSIVE ThreadEvents(_, _)
ThreadEvents(tids, reason) ==
    IF tids = {} THEN << >>
    ELSE LET tid == CHOOSE t \in tids : \A u \in tids : t <= u
         IN << Event("thread", [kind |-> "thread", threadId |-> tid, reason |-> reason]) >>
            \o ThreadEvents(tids \ {tid}, reason)
ThreadIds(proc) == {proc.threads[i].tid : i \in DOMAIN proc.threads}
UpdateThreadsMutantAnnouncesAll(known, proc) == ThreadEvents(ThreadIds(proc), "started")
update_threads(known, proc) ==
    ThreadEvents(known \ ThreadIds(proc), "exited")
    \o ThreadEvents(ThreadIds(proc) \ known, "started")

\* A concrete stop reason: neither eStopReasonInvalid nor eStopReasonNone
Concrete(reason) == reason \notin {"invalid", "none"}
\* The selected thread is valid and has a concrete stop reason
SelectedStopped(proc) ==
    proc.selected # 0 /\ Concrete(proc.threads[proc.selected].reason)
\* The scan `for thread in self.process`: the first thread with a concrete reason
FirstConcrete(threads) ==
    IF \E i \in DOMAIN threads : Concrete(threads[i].reason)
    THEN CHOOSE i \in DOMAIN threads :
             /\ Concrete(threads[i].reason)
             /\ \A j \in 1..(i - 1) : ~Concrete(threads[j].reason)
    ELSE 0
StoppedThreadMutantKeepsSelected(proc) ==
    IF proc.selected # 0 THEN proc.selected ELSE FirstConcrete(proc.threads)
\* The index of stopped_thread (0: None)
StoppedThread(proc) ==
    IF SelectedStopped(proc) THEN proc.selected ELSE FirstConcrete(proc.threads)

StopReasonMutantNoException(registry, thread) ==
    IF thread.reason = "breakpoint" THEN "breakpoint"
    ELSE IF thread.reason \in {"trace", "plan_complete"} THEN "step"
    ELSE IF thread.reason \in {"watchpoint", "signal", "exception"} THEN thread.reason
    ELSE "unknown"
\* stop_reason_str for the stopped thread
stop_reason_str(registry, thread) ==
    IF thread.reason = "breakpoint"
    THEN IF thread.data \in DOMAIN registry /\ registry[thread.data].exception_bp
         THEN "exception" ELSE "breakpoint"
    ELSE IF thread.reason \in {"trace", "plan_complete"} THEN "step"
    ELSE IF thread.reason = "watchpoint" THEN "watchpoint"
    ELSE IF thread.reason = "signal" THEN "signal"
    ELSE IF thread.reason = "exception" THEN "exception"
    ELSE "unknown"
\* The stops whose description is printed and attached to the event
Described(thread) == thread.reason \notin {"breakpoint", "trace", "plan_complete"}

\* The body of the stopped event; reason "", threadId 0 and text "" stand for an
\* absent field.
StoppedBody(registry, proc, idx) ==
    IF idx = 0
    THEN [kind |-> "stopped", allThreadsStopped |-> TRUE, reason |-> "", threadId |-> 0,
          text |-> ""]
    ELSE [kind |-> "stopped", allThreadsStopped |-> TRUE,
          reason |-> stop_reason_str(registry, proc.threads[idx]),
          threadId |-> proc.threads[idx].tid,
          text |-> IF Described(proc.threads[idx]) THEN proc.threads[idx].description
                   ELSE ""]
StopDescriptionMutantSilent(proc, idx) == << >>
StopDescription(proc, idx) ==
    IF idx # 0 /\ Described(proc.threads[idx])
    THEN console_msg("Stop reason: " \o proc.threads[idx].description, "None")
    ELSE << >>

\* What handling a process event gives: the messages sent, the calls made on the
\* backend and self.known_threads afterwards
Handled(out, calls, known) == [out |-> out, calls |-> calls, known_threads |-> known]

NotifyMutantNoStoppedEvent(registry, known, proc) ==
    Handled(update_threads(known, proc), << >>, ThreadIds(proc))
\* notify_target_stopped(lldb_event), with the process as proc
notify_target_stopped(registry, known, proc) ==
    Handled(update_threads(known, proc)
            \o StopDescription(proc, StoppedThread(proc))
            \o << Event("stopped", StoppedBody(registry, proc, StoppedThread(proc))) >>,
            IF ~SelectedStopped(proc) /\ FirstConcrete(proc.threads) # 0
            THEN << Call("SetSelectedThread",
                         proc.threads[FirstConcrete(proc.threads)].tid) >>
            ELSE << >>,
            ThreadIds(proc))

\* process.GetSTDOUT(n) / GetSTDERR(n): at most n of the buffered bytes, which
\* leave the buffer
ReadSize == 1024
ReadStreamMutantWholeBuffer(stream, n) ==
    [output |-> Stream(stream.pos, stream.avail),
     stream |-> Stream(stream.pos + stream.avail, 0)]
read_stream(stream, n) ==
    IF stream.avail <= n
    THEN [output |-> Stream(stream.pos, stream.avail),
          stream |-> Stream(stream.pos + stream.avail, 0)]
    ELSE [output |-> Stream(stream.pos, n),
          stream |-> Stream(stream.pos + n, stream.avail - n)]
OutputChunk(category, output) ==
    Event("output", [kind |-> "output", category |-> category, output |-> "bytes",
                     at |-> output.pos, len |-> output.avail])
\* notify_stdio, the loop: while output: send_event; output = read_stream(1024)
RECURSIVE drain(_, _)
drain(category, stream) ==
    IF read_stream(stream, ReadSize).output.avail = 0 THEN << >>
    ELSE << OutputChunk(category, read_stream(stream, ReadSize).output) >>
         \o drain(category, read_stream(stream, ReadSize).stream)
\* notify_stdio(ev_type)
notify_stdio(category, stream, late) ==
    IF read_stream(stream, ReadSize).output.avail = 0 THEN << >>
    ELSE << OutputChunk(category, read_stream(stream, ReadSize).output) >>
         \o drain(category,
                  [read_stream(stream, ReadSize).stream EXCEPT !.avail = @ + late])

ProcessEventMutantTerminatedFirst(registry, known, ev) ==
    IF ev.type = "running"
    THEN Handled(<< Event("continued", [kind |-> "continued", threadId |-> 0,
                                        allThreadsContinued |-> TRUE]) >>, << >>, known)
    ELSE IF ev.type = "crashed" \/ (ev.type = "stopped" /\ ~ev.restarted)
    THEN notify_target_stopped(registry, known, ev.proc)
    ELSE IF ev.type = "exited"
    THEN Handled(<< Event("terminated", NoBody),
                    Event("exited", [kind |-> "exited", exitCode |-> ev.exit_code]) >>,
                 << >>, known)
    ELSE IF ev.type = "detached"
    THEN Handled(<< Event("terminated", NoBody) >>, << >>, known)
    ELSE Handled(<< >>, << >>, known)
\* handle_debugger_event for a process event
handle_process_event(registry, known, ev) ==
    IF ev.type = "running"
    THEN Handled(<< Event("continued", [kind |-> "continued", threadId |-> 0,
                                        allThreadsContinued |-> TRUE]) >>, << >>, known)
    ELSE IF ev.type = "stopped"
    THEN IF ev.restarted THEN Handled(<< >>, << >>, known)
         ELSE notify_target_stopped(registry, known, ev.proc)
    ELSE IF ev.type = "crashed" THEN notify_target_stopped(registry, known, ev.proc)
    ELSE IF ev.type = "exited"
    THEN Handled(console_msg("Process exited with code " \o ToString(ev.exit_code), "None")
                 \o << Event("exited", [kind |-> "exited", exitCode |-> ev.exit_code]),
                       Event("terminated", NoBody) >>, << >>, known)
    ELSE IF ev.type = "detached"
    THEN Handled(console_msg("Debugger has detached from process.", "None")
                 \o << Event("terminated", NoBody) >>, << >>, known)
    ELSE IF ev.type \in {"stdout", "stderr"}
    THEN Handled(notify_stdio(ev.type, ev.stream, ev.late), << >>, known)
    ELSE Handled(<< >>, << >>, known)

(***************************************************************************)
(* The breakpoint callback (on_breakpoint_hit -> should_stop_on_bp).       *)
(* cond_result: what the compiled condition does when called ("True",      *)
(* "False" or "raise"); message: what formatting the log message gives     *)
(* (the text, possibly empty, or "raise").                                 *)
(***************************************************************************)
ShouldStopMutantLogStops(registry, bp_id, cond_result, message) ==
    IF bp_id \notin DOMAIN registry THEN [stop |-> TRUE, out |-> << >>]
    ELSE [stop |-> TRUE, out |-> console_msg(message, "None")]
should_stop_on_bp(registry, bp_id, cond_result, message) ==
    IF bp_id \notin DOMAIN registry THEN [stop |-> TRUE, out |-> << >>]
    ELSE LET bp_info == registry[bp_id]
         IN IF bp_info.condition # NoCond /\ cond_result = "False"
            THEN [stop |-> FALSE, out |-> << >>]
            ELSE IF bp_info.condition # NoCond /\ cond_result = "raise"
            THEN [stop |-> TRUE,
                  out |-> console_err("Could not evaluate breakpoint condition")]
            ELSE IF bp_info.log_message # ""
            THEN IF message = "raise"
                 THEN [stop |-> TRUE,
                       out |-> console_err("Could not evaluate breakpoint log message")]
                 ELSE [stop |-> FALSE, out |-> console_msg(message, "None")]
            ELSE [stop |-> TRUE, out |-> << >>]

(***************************************************************************)
(* The Handle Tree (handles.HandleTree).  An object is a node of the        *)
(* inferior's state at one stop: the epoch it was read in and its path.    *)
(***************************************************************************)
FirstHandle == 1
NewHandleTree == [next |-> FirstHandle, objs |-> << >>]
\* obj is what the handle stands for: the node at the path, unless the caller
\* stores something else under it (HandleStore).
Object(e, vpath) == [epoch |-> e, vpath |-> vpath, obj |-> vpath]

\* HandleTree.get(handle): the object, or NotFound (None)
NotFound == Object(0 - 1, << >>)
HandleGet(tree, handle) ==
    IF handle \in DOMAIN tree.objs THEN tree.objs[handle] ELSE NotFound

\* HandleTree.create(obj, key, parent_handle): the tree afterwards; the handle
\* is HandleOf(tree', vpath).  The same parent and key give the same handle.
HandleOf(tree, vpath) == CHOOSE h \in DOMAIN tree.objs : tree.objs[h].vpath = vpath
HandleCreate(tree, e, key, parent_handle) ==
    LET vpath == IF parent_handle = 0 THEN << key >>
                 ELSE Append(tree.objs[parent_handle].vpath, key)
    IN IF \E h \in DOMAIN tree.objs : tree.objs[h].vpath = vpath
       THEN [tree EXCEPT !.objs[HandleOf(tree, vpath)] = Object(e, vpath)]
       ELSE [next |-> tree.next + 1, objs |-> Put(tree.objs, tree.next, Object(e, vpath))]

\* The obj of create(obj, key, parent_handle), where the path does not tell it
HandleStore(tree, handle, obj) == [tree EXCEPT !.objs[handle].obj = obj]

\* HandleTree.reset(): a new generation, in which no earlier handle resolves
HandleReset(tree) == NewHandleTree

\* before_resume
before_resume(tree) == HandleReset(tree)

(***************************************************************************)
(* The initial state: DebugSession.__init__.                               *)
(***************************************************************************)
(***************************************************************************)
(* Source paths.  A path is a sequence of characters; a resolution result  *)
(* is a local path or None.                                                *)
(***************************************************************************)
NonePath == [none |-> TRUE, path |-> << >>]
LocalPath(path) == [none |-> FALSE, path |-> path]
\* An SBFileSpec: IsValid() and fullpath; (GetDirectory(), GetFilename()) is
\* the cache key of a valid file spec.
FileSpec(valid, fullpath) == [valid |-> valid, fullpath |-> fullpath]
CacheKey(filespec) == filespec.fullpath
\* An entry of the launch configuration's sourceMap: remote prefix (a glob
\* pattern) and local prefix (None to suppress the source).
Rule(remote_prefix, local_prefix) == [remote |-> remote_prefix, local |-> local_prefix]

\* os.path.normpath (POSIX): empty and "." components are dropped, ".." takes
\* the previous component away, an empty result is ".".
RECURSIVE SplitPath(_, _)
SplitPath(path, component) ==
    IF path = << >> THEN << component >>
    ELSE IF Head(path) = "/" THEN << component >> \o SplitPath(Tail(path), << >>)
    ELSE SplitPath(Tail(path), Append(component, Head(path)))
RECURSIVE Collapse(_, _, _)
Collapse(components, kept, absolute) ==
    IF components = << >> THEN kept
    ELSE Collapse(
             Tail(components),
             IF Head(components) = << >> \/ Head(components) = << "." >> THEN kept
             ELSE IF Head(components) # << ".", "." >> THEN Append(kept, Head(components))
             ELSE IF kept # << >> /\ kept[Len(kept)] # << ".", "." >>
             THEN SubSeq(kept, 1, Len(kept) - 1)
             ELSE IF absolute THEN kept
             ELSE Append(kept, Head(components)),
             absolute)
RECURSIVE JoinPath(_)
JoinPath(components) ==
    IF components = << >> THEN << >>
    ELSE IF Len(components) = 1 THEN Head(components)
    ELSE Head(components) \o << "/" >> \o JoinPath(Tail(components))
normpath(path) ==
    IF path = << >> THEN << "." >>
    ELSE IF Head(path) = "/"
    THEN << "/" >> \o JoinPath(Collapse(SplitPath(path, << >>), << >>, TRUE))
    ELSE IF Collapse(SplitPath(path, << >>), << >>, FALSE) = << >> THEN << "." >>
    ELSE JoinPath(Collapse(SplitPath(path, << >>), << >>, FALSE))
\* os.path.normcase (POSIX): the path itself
normcase(path) == path

\* self.source_map: None until the first resolution
NoSourceMap == [set |-> FALSE, rules |-> << >>]
\* make_source_map: one (regex, local_prefix) pair per entry of the launch
\* configuration's sourceMap, in the order its items() yields them
make_source_map(launch) == [set |-> TRUE, rules |-> launch.sourceMap]

\* remote_prefix_regex.match(path): the translated glob, followed by anything,
\* matches from the start of the path; "?" stands for any one character
Matches(remote_prefix, path) ==
    /\ Len(remote_prefix) <= Len(path)
    /\ \A i \in DOMAIN remote_prefix : remote_prefix[i] \in {"?", path[i]}
\* The rules that match, and the first of them (0: none)
Matching(rules, path) == {i \in DOMAIN rules : Matches(rules[i].remote, path)}
FirstMatch(rules, path) ==
    IF Matching(rules, path) = {} THEN 0
    ELSE CHOOSE i \in Matching(rules, path) : \A j \in Matching(rules, path) : i <= j
\* local_prefix + path[len(m.group(1)):]
Substitute(rule, path) ==
    rule.local.path \o SubSeq(path, Len(rule.remote) + 1, Len(path))

\* map_filespec_to_local_uncached(filespec), after make_source_map
map_filespec_to_local_uncached(rules, filespec) ==
    LET path == normpath(filespec.fullpath)
        i == FirstMatch(rules, normcase(path))
    IN IF i = 0 THEN LocalPath(path)
       ELSE IF rules[i].local.none THEN NonePath
       ELSE LocalPath(normpath(Substitute(rules[i], path)))

\* What map_filespec_to_local hands back: the value it returns or the
\* exception it ends with, and the source map and the cache it leaves.
Resolved(exc, value, map, cache) ==
    [exc |-> exc, value |-> value, source_map |-> map, filespec_cache |-> cache]
\* The source map in use: built from the launch configuration when it is None
MapInUse(map, launch) == IF map.set THEN map ELSE make_source_map(launch)

ResolveMutantNoCache(map, cache, suppress, local_files, launch, filespec) ==
    LET U == map_filespec_to_local_uncached(MapInUse(map, launch).rules, filespec)
    IN IF ~filespec.valid THEN Resolved(NoExc, NonePath, map, cache)
       ELSE IF suppress /\ U.none
       THEN Resolved(InternalExc, NonePath, MapInUse(map, launch), cache)
       ELSE IF suppress /\ U.path \notin local_files
       THEN Resolved(NoExc, NonePath, MapInUse(map, launch),
                     Put(cache, CacheKey(filespec), NonePath))
       ELSE Resolved(NoExc, U, MapInUse(map, launch), Put(cache, CacheKey(filespec), U))
\* map_filespec_to_local(filespec); os.path.isfile(None) raises TypeError
map_filespec_to_local(map, cache, suppress, local_files, launch, filespec) ==
    LET U == map_filespec_to_local_uncached(MapInUse(map, launch).rules, filespec)
    IN IF ~filespec.valid THEN Resolved(NoExc, NonePath, map, cache)
       ELSE IF CacheKey(filespec) \in DOMAIN cache
       THEN Resolved(NoExc, cache[CacheKey(filespec)], map, cache)
       ELSE IF suppress /\ U.none
       THEN Resolved(InternalExc, NonePath, MapInUse(map, launch), cache)
       ELSE IF suppress /\ U.path \notin local_files
       THEN Resolved(NoExc, NonePath, MapInUse(map, launch),
                     Put(cache, CacheKey(filespec), NonePath))
       ELSE Resolved(NoExc, U, MapInUse(map, launch), Put(cache, CacheKey(filespec), U))

\* self.global_format, self.show_disassembly and self.deref_pointers
DefaultDisplay ==
    [global_format |-> "default", show_disassembly |-> "auto", deref_pointers |-> TRUE]

\* DebugSession(parameters, event_loop, send_message); suppress is
\* parameters.get('suppressMissingSourceFiles', True), local_files the files of
\* the machine.
Constructed(suppress, local_files) ==
    /\ launch_args = NoLaunchArgs
    /\ do_launch = "unset"
    /\ target = FALSE
    /\ process = "None"
    /\ line_breakpoints = [f \in FileIds |-> [l \in Lines |-> 0]]
    /\ fn_breakpoints = [n \in FnNames |-> 0]
    /\ breakpoints = << >>
    /\ backend_bps = << >>
    /\ next_bp_id = 1
    /\ bp_listener = FALSE
    /\ event_queue = << >>
    /\ var_refs = NewHandleTree
    /\ epoch = 0
    /\ request_seq = 1
    /\ pending_requests = {}
    /\ cb_calls = [s \in 1..(MaxReverse + 1) |-> 0]
    /\ known_threads = {}
    /\ event_loop = "running"
    /\ source_map = NoSourceMap
    /\ filespec_cache = << >>
    /\ suppress_missing_sources = suppress
    /\ files = local_files
    /\ display_settings = DefaultDisplay
    /\ executing = {}
    /\ last = Last("init", 0, NoExc, << >>, << >>, NoBody)

Init == Constructed(TRUE, {})

CommitBp(W) ==
    /\ breakpoints' = W.breakpoints
    /\ backend_bps' = W.backend_bps
    /\ next_bp_id' = W.next_bp_id
    /\ bp_listener' = W.listening
    /\ event_queue' = W.queue

(***************************************************************************)
(* Breakpoint requests.                                                    *)
(***************************************************************************)
DEBUG_setBreakpoints(seq, source, req_bps) ==
    \E order \in Orders(Present(IndexOf(source))) :
      \E H \in {setBreakpoints(source, req_bps, order)} :
         /\ H.W.next_bp_id <= MaxBpId + 1
         /\ CommitBp(H.W)
         /\ line_breakpoints' =
              IF H.file_id \in FileIds
              THEN [line_breakpoints EXCEPT ![H.file_id] = H.W.idx]
              ELSE line_breakpoints
         /\ last' = Last("setBreakpoints", seq, H.W.exc,
                         handle_request("setBreakpoints", seq, H.result, H.W.exc,
                                        H.body, H.W.out),
                         H.W.calls,
                         [source |-> source, breakpoints |-> req_bps,
                          old |-> IndexOf(source), reconciled |-> H.file_id # ""])
         /\ UNCHANGED << fn_breakpoints, launch_vars, handle_vars, loop_vars, view_vars, reverse_vars >>

DEBUG_setFunctionBreakpoints(seq, req_bps) ==
    \E order \in Orders(Present(fn_breakpoints)) :
      \E H \in {setFunctionBreakpoints(req_bps, order)} :
         /\ H.W.next_bp_id <= MaxBpId + 1
         /\ CommitBp(H.W)
         /\ fn_breakpoints' = IF H.file_id = "fn" THEN H.W.idx ELSE fn_breakpoints
         /\ last' = Last("setFunctionBreakpoints", seq, H.W.exc,
                         handle_request("setFunctionBreakpoints", seq, H.result, H.W.exc,
                                        H.body, H.W.out),
                         H.W.calls,
                         [breakpoints |-> req_bps, old |-> fn_breakpoints,
                          reconciled |-> H.file_id # ""])
         /\ UNCHANGED << line_breakpoints, launch_vars, handle_vars, loop_vars, view_vars, reverse_vars >>

DEBUG_setExceptionBreakpoints(seq, filters) ==
    \E order \in Orders(ExceptionBps(breakpoints)) :
      \E H \in {setExceptionBreakpoints(filters, order)} :
         /\ H.W.next_bp_id <= MaxBpId + 1
         /\ CommitBp(H.W)
         /\ last' = Last("setExceptionBreakpoints", seq, H.W.exc,
                         handle_request("setExceptionBreakpoints", seq, H.result,
                                        H.W.exc, H.body, H.W.out),
                         H.W.calls,
                         [filters |-> filters, reconciled |-> H.file_id # ""])
         /\ UNCHANGED << line_breakpoints, fn_breakpoints, launch_vars, handle_vars, loop_vars, view_vars,
                         reverse_vars >>

\* DEBUG_evaluate in 'repl' context with a debugger command that sets a breakpoint
\* (command = 0) or deletes breakpoint `command` of the backend.
DEBUG_evaluate_command(seq, command) ==
    /\ IF process = "None"
       THEN UNCHANGED bp_vars
       ELSE \E W \in {IF command = 0
                      THEN BreakpointCreate(Work(<< >>), "breakpoint set", 0, "user", << >>)
                      ELSE BreakpointDelete(Work(<< >>), command)} :
               /\ W.next_bp_id <= MaxBpId + 1
               /\ Len(W.queue) <= MaxEvents
               /\ CommitBp(W)
               /\ UNCHANGED << line_breakpoints, fn_breakpoints >>
    /\ last' = Last("evaluate", seq, NoExc,
                    handle_request("evaluate", seq, "dict", NoExc,
                                   [kind |-> "result"], << >>),
                    << >>, [command |-> command])
    /\ UNCHANGED << launch_vars, handle_vars, loop_vars, view_vars, reverse_vars >>

\* handle_debugger_event(event) for the notification at the head of the queue
handle_debugger_event ==
    /\ event_queue # << >>
    /\ IF Head(event_queue).kind = "breakpoint"
       THEN \E N \in {notify_breakpoint(breakpoints, backend_bps, Head(event_queue))} :
               /\ breakpoints' = N.breakpoints
               /\ last' = [Last("notify_breakpoint", 0, N.exc, N.out, << >>,
                                [event |-> Head(event_queue)])
                           EXCEPT !.escaped = N.exc # NoExc]
               /\ known_threads' = known_threads
       ELSE \E H \in {handle_process_event(breakpoints, known_threads,
                                           Head(event_queue))} :
               /\ breakpoints' = breakpoints
               /\ known_threads' = H.known_threads
               /\ last' = Last("process_event", 0, NoExc, H.out, H.calls,
                               [event |-> Head(event_queue)])
    /\ event_queue' = Tail(event_queue)
    /\ event_loop' = event_loop
    /\ UNCHANGED view_vars
    /\ UNCHANGED << line_breakpoints, fn_breakpoints, backend_bps, next_bp_id,
                    bp_listener, launch_vars, handle_vars, reverse_vars >>

\* on_breakpoint_hit(frame, bp_loc, internal_dict): the backend calls it for a
\* breakpoint whose script callback is set, while the inferior runs.
on_breakpoint_hit(bp_id, cond_result, message) ==
    /\ process = "running"
    /\ bp_id \in DOMAIN backend_bps
    /\ backend_bps[bp_id].callback = "on_breakpoint_hit"
    /\ Len(event_queue) < MaxEvents
    /\ LET R == should_stop_on_bp(breakpoints, bp_id, cond_result, message)
           has_info == bp_id \in DOMAIN breakpoints
           has_cond == has_info /\ breakpoints[bp_id].condition # NoCond
           has_log == has_info /\ breakpoints[bp_id].log_message # ""
       IN /\ backend_bps' =
               IF has_info /\ breakpoints[bp_id].ignore_count # 0
               THEN [backend_bps EXCEPT ![bp_id].ignore_count =
                                           breakpoints[bp_id].ignore_count]
               ELSE backend_bps
          /\ process' = IF R.stop THEN "stopped" ELSE process
          /\ event_queue' = IF R.stop
                            THEN Append(event_queue, ProcessEvent("stopped", bp_id))
                            ELSE event_queue
          /\ last' = Last("on_breakpoint_hit", 0, NoExc, R.out, << >>,
                          [bp_id |-> bp_id, stop |-> R.stop,
                           cond_result |-> IF has_cond THEN cond_result ELSE "none",
                           message |-> IF has_log /\ (~has_cond \/ cond_result = "True")
                                       THEN message ELSE "none"])
    /\ UNCHANGED << launch_args, do_launch, target, line_breakpoints, fn_breakpoints,
                    breakpoints, next_bp_id, bp_listener, handle_vars, loop_vars, view_vars, reverse_vars >>

(***************************************************************************)
(* Launch and attach.                                                      *)
(* args: request ("launch", "attach" or "custom"), noDebug, expressions,   *)
(* terminal (an integrated or external terminal is asked for) and          *)
(* target_ok (create_target succeeds; for attach: a pid or program is      *)
(* given and create_target succeeds).                                      *)
(***************************************************************************)
LaunchArgs(request, noDebug, expressions, terminal, target_ok) ==
    [request |-> request, noDebug |-> noDebug, expressions |-> expressions,
     terminal |-> terminal, target_ok |-> target_ok, exitCommands |-> << >>,
     sourceMap |-> << >>]

\* The command of a launch request: a custom launch is a launch command.
LaunchCommand(kind) == IF kind = "attach" THEN "attach" ELSE "launch"

\* What DEBUG_launch, DEBUG_attach and custom_launch return: the response is
\* deferred till configurationDone
LaunchResultMutantAnswers(args) == "None"
LaunchResult(args) == AsyncResponse

\* DEBUG_launch / DEBUG_attach / custom_launch
DEBUG_launch(seq, args) ==
    /\ IF args.request # "custom" /\ ~args.target_ok
       THEN /\ last' = Last(args.request, seq, UserError,
                            handle_request(LaunchCommand(args.request), seq, "None",
                                           UserError, NoBody, << >>),
                            << >>, [orphaned |-> FALSE])
            /\ UNCHANGED << launch_vars, backend_bps, next_bp_id, bp_listener >>
       ELSE /\ target' = TRUE
            /\ backend_bps' = << >>   \* the new target has its own breakpoint list
            /\ next_bp_id' = 1
            /\ bp_listener' = TRUE
            /\ do_launch' = "complete_" \o args.request
            /\ launch_args' = [set |-> TRUE, noDebug |-> args.noDebug,
                               expressions |-> args.expressions, response |-> seq,
                               responses |-> 0, terminal |-> args.terminal,
                               kind |-> args.request,
                               exitCommands |-> args.exitCommands,
                               sourceMap |-> args.sourceMap]
            /\ process' = process
            /\ last' = Last(args.request, seq, NoExc,
                            handle_request(LaunchCommand(args.request), seq,
                                           LaunchResult(args), NoExc, NoBody,
                                           << Event("initialized", NoBody) >>),
                            << Call("CreateTarget", 0) >>,
                            [orphaned |-> launch_args.set /\ launch_args.responses = 0])
    /\ UNCHANGED << line_breakpoints, fn_breakpoints, breakpoints, event_queue,
                    handle_vars, loop_vars, view_vars, reverse_vars >>

SendRequestMutantReusesSeq(command, seq_now, pending) ==
    [request_seq |-> seq_now, pending_requests |-> pending \cup {seq_now},
     out |-> << Msg("request", command, seq_now, TRUE, NoBody) >>]
\* send_request(command, args, on_complete)
send_request(command, seq_now, pending) ==
    [request_seq |-> seq_now + 1, pending_requests |-> pending \cup {seq_now},
     out |-> << Msg("request", command, seq_now, TRUE, NoBody) >>]

\* DEBUG_configurationDone; ok: the backend launches or attaches without error,
\* stopped: the process is stopped when the handler looks at it.
DEBUG_configurationDone(seq, ok, stopped) ==
    IF do_launch = "unset"
    THEN /\ last' = Last("configurationDone", seq, InternalExc,
                         handle_request("configurationDone", seq, "None", InternalExc,
                                        NoBody, << >>),
                         << >>, NoBody)
         /\ UNCHANGED << launch_vars, bp_vars, handle_vars, loop_vars, view_vars, reverse_vars >>
    ELSE
    LET kind == launch_args.kind
        spawn == kind = "launch" /\ launch_args.terminal
        R == IF spawn THEN send_request("runInTerminal", request_seq, pending_requests)
             ELSE [request_seq |-> request_seq, pending_requests |-> pending_requests,
                   out |-> << >>]
        failed == ~ok /\ kind # "custom"
        exc == IF ~failed THEN NoExc
               ELSE IF kind = "launch" THEN LaunchFailed ELSE AttachFailed
        out1 == IF failed /\ kind = "launch"
                THEN console_err(GetCString) \o << Event("terminated", NoBody) >>
                ELSE IF failed THEN console_err(GetCString)
                ELSE IF ~ok THEN console_err("Warning: process is invalid")
                ELSE << >>
        proc == IF ~ok THEN "invalid" ELSE IF stopped THEN "stopped" ELSE "running"
        out2 == send_response(LaunchCommand(kind), launch_args.response, exc, NoBody)
        N == IF proc = "stopped"
             THEN notify_target_stopped(breakpoints, known_threads, StopAt(0))
             ELSE Handled(<< >>, << >>, known_threads)
        out3 == N.out
    IN /\ launch_args.responses < MaxResponses
       /\ R.request_seq <= MaxReverse + 1
       /\ request_seq' = R.request_seq
       /\ pending_requests' = R.pending_requests
       /\ process' = proc
       /\ launch_args' = [launch_args EXCEPT !.responses = @ + 1]
       /\ last' = Last("configurationDone", seq, NoExc,
                       handle_request("configurationDone", seq, "None", NoExc, NoBody,
                                      R.out \o out1 \o out2 \o out3),
                       IF ok /\ kind = "attach" /\ ~stopped
                       THEN << Call("Attach", 0), Call("Continue", 0) >>
                       ELSE << Call(IF kind = "attach" THEN "Attach" ELSE "Launch", 0) >>,
                       [failed |-> failed, kind |-> kind])
       /\ known_threads' = N.known_threads
       /\ UNCHANGED << do_launch, target, bp_vars, handle_vars, event_loop, view_vars,
                       cb_calls >>

\* handle_message, response branch: the response to a reverse request
handle_response(seq, success) ==
    /\ IF seq \in pending_requests
       THEN /\ pending_requests' = pending_requests \ {seq}
            /\ cb_calls' = [cb_calls EXCEPT ![seq] = @ + 1]
       ELSE UNCHANGED << pending_requests, cb_calls >>
    /\ last' = Last("response", seq, NoExc, << >>, << >>,
                    [matched |-> seq \in pending_requests, success |-> success])
    /\ UNCHANGED << launch_vars, bp_vars, handle_vars, loop_vars, view_vars, request_seq >>

(***************************************************************************)
(* Resuming requests.  The backend calls are recorded in order; "reset" is  *)
(* var_refs.reset().                                                       *)
(***************************************************************************)
Resume(op, seq, exc, out, calls, tree, proc, resumed) ==
    /\ var_refs' = tree
    /\ process' = proc
    /\ epoch' = IF resumed THEN epoch + 1 ELSE epoch
    /\ last' = Last(op, seq, exc, handle_request(op, seq, "None", exc, NoBody, out),
                    calls, [resumed |-> resumed, before |-> var_refs])
    /\ UNCHANGED << launch_args, do_launch, target, bp_vars, reverse_vars, loop_vars, view_vars >>

\* DEBUG_continue; fail: the backend refuses to continue
DEBUG_continue(seq, fail) ==
    LET tree == before_resume(var_refs)
        reset == << Call("reset", 0) >>
    IN /\ epoch < MaxEpoch
       /\ IF process = "None"
          THEN Resume("continue", seq, InternalExc, << >>, reset, tree, process, FALSE)
          ELSE IF fail \/ process # "stopped"
          THEN Resume("continue", seq, GetCString, << >>,
                      reset \o << Call("Continue", 0) >>, tree, process, FALSE)
          ELSE Resume("continue", seq, NoExc, << >>,
                      reset \o << Call("Continue", 0) >>, tree, "running", TRUE)

\* DEBUG_pause; fail: the backend refuses to stop the process.  The stop itself
\* is reported later, by an event.
DEBUG_pause(seq, fail) ==
    /\ last' = Last("pause", seq,
                    IF process = "None" THEN InternalExc
                    ELSE IF fail THEN GetCString ELSE NoExc,
                    handle_request("pause", seq, "None",
                                   IF process = "None" THEN InternalExc
                                   ELSE IF fail THEN GetCString ELSE NoExc,
                                   NoBody, << >>),
                    IF process = "None" THEN << >> ELSE << Call("Stop", 0) >>,
                    [fail |-> fail, before |-> var_refs])
    /\ UNCHANGED << launch_vars, bp_vars, handle_vars, reverse_vars, loop_vars,
                    view_vars >>

\* DEBUG_next, DEBUG_stepIn and DEBUG_stepOut: before_resume, then a thread step
Step(op, seq, command) ==
    LET tree == before_resume(var_refs)
        reset == << Call("reset", 0) >>
    IN /\ epoch < MaxEpoch
       /\ IF process = "None"
          THEN Resume(op, seq, InternalExc, << >>, reset, tree, process, FALSE)
          ELSE IF process # "stopped"
          THEN Resume(op, seq, NoExc, << >>, reset, tree, process, FALSE)
          ELSE Resume(op, seq, NoExc, << >>, reset \o << Call(command, 0) >>, tree,
                      "running", TRUE)

DEBUG_next(seq) == Step("next", seq, "StepOver")
DEBUG_stepIn(seq) == Step("stepIn", seq, "StepInto")
DEBUG_stepOut(seq) == Step("stepOut", seq, "StepOut")

\* reverse_exec(commands); ok: the command interpreter runs every command.
\* The packet commands need a stopped process.
reverse_exec(op, seq, commands, ok) ==
    /\ epoch < MaxEpoch
    /\ IF ok /\ process = "stopped"
       THEN Resume(op, seq, NoExc, << >>,
                   [i \in 1..Len(commands) |-> Call(commands[i], 0)], var_refs,
                   "running", TRUE)
       ELSE Resume(op, seq, NoExc, console_err("command failed"),
                   << Call(commands[1], 0) >>, var_refs, process, FALSE)

DEBUG_stepBack(seq, ok) ==
    reverse_exec("stepBack", seq,
                 << "process plugin packet send Hc", "process plugin packet send bs",
                    "process plugin packet send bs", "stepi" >>, ok)

DEBUG_reverseContinue(seq, ok) ==
    reverse_exec("reverseContinue", seq,
                 << "process plugin packet send bc", "process plugin packet send bs",
                    "stepi" >>, ok)

\* The backend reports that the running inferior stopped (not at a breakpoint).
backend_stop ==
    /\ process = "running"
    /\ Len(event_queue) < MaxEvents
    /\ process' = "stopped"
    /\ event_queue' = Append(event_queue, ProcessEvent("stopped", 0))
    /\ last' = Last("backend_stop", 0, NoExc, << >>, << >>, NoBody)
    /\ UNCHANGED << launch_args, do_launch, target, line_breakpoints, fn_breakpoints,
                    breakpoints, backend_bps, next_bp_id, bp_listener, handle_vars, loop_vars, view_vars,
                    reverse_vars >>

\* The backend resolves the locations of breakpoint bp_id (a module was loaded)
\* and broadcasts the change to the listeners.
backend_locations_resolved(bp_id) ==
    /\ process \notin {"None", "invalid"}
    /\ bp_id \in DOMAIN backend_bps
    /\ bp_listener
    /\ Len(event_queue) < MaxEvents
    /\ event_queue' = Append(event_queue, BpEvent("resolved", bp_id))
    /\ last' = Last("backend_event", 0, NoExc, << >>, << >>,
                    [event |-> BpEvent("resolved", bp_id)])
    /\ UNCHANGED << launch_vars, line_breakpoints, fn_breakpoints, breakpoints,
                    backend_bps, next_bp_id, bp_listener, handle_vars, loop_vars, view_vars,
                    reverse_vars >>

\* The backend reports a state change or output of the inferior.
backend_event(ev) ==
    /\ process \notin {"None", "invalid"}
    /\ Len(event_queue) < MaxEvents
    /\ process' = IF ev.type \in {"stopped", "crashed"} /\ ~ev.restarted THEN "stopped"
                  ELSE IF ev.type \in {"running", "exited"} THEN ev.type
                  ELSE IF ev.type = "stopped" THEN "running"
                  ELSE process
    /\ event_queue' = Append(event_queue, ev)
    /\ last' = Last("backend_event", 0, NoExc, << >>, << >>, [event |-> ev])
    /\ UNCHANGED << launch_args, do_launch, target, line_breakpoints, fn_breakpoints,
                    breakpoints, backend_bps, next_bp_id, bp_listener, handle_vars,
                    loop_vars, view_vars, reverse_vars >>

(***************************************************************************)
(* Requests that create and resolve handles.                               *)
(***************************************************************************)
\* What a lookup of `handle` found: the footprint of var_refs.get
Lookup(handle) ==
    [handle |-> handle, found |-> HandleGet(var_refs, handle) # NotFound,
     object |-> HandleGet(var_refs, handle)]

Inspect(op, seq, result, exc, body, tree, arg) ==
    /\ tree.next <= MaxHandles + 1
    /\ var_refs' = tree
    /\ last' = Last(op, seq, exc, handle_request(op, seq, result, exc, body, << >>),
                    << >>, arg)
    /\ UNCHANGED << epoch, launch_vars, bp_vars, reverse_vars, loop_vars, view_vars >>

ScopeKeys == << "[locs]", "[stat]", "[glob]", "[regs]" >>
RECURSIVE CreateAll(_, _, _, _)
CreateAll(tree, e, keys, parent_handle) ==
    IF keys = << >> THEN tree
    ELSE CreateAll(HandleCreate(tree, e, Head(keys), parent_handle), e, Tail(keys),
                   parent_handle)

\* The frames of the one thread of a stopped inferior, and the key of frame i:
\* (thread.GetThreadID(), i)
NumFrames == 2
FrameKey(i) == "frame" \o ToString(i)
\* DEBUG_stackTrace for the one thread of the inferior
DEBUG_stackTraceFrom(seq, start_frame, levels) ==
    IF process = "None"
    THEN Inspect("stackTrace", seq, "None", InternalExc, NoBody, var_refs, NoBody)
    ELSE IF process # "stopped"
    THEN Inspect("stackTrace", seq, "dict", NoExc, [kind |-> "stackFrames", ids |-> << >>],
                 var_refs, NoBody)
    ELSE LET n == IF start_frame + levels > NumFrames THEN NumFrames - start_frame
                  ELSE levels
             keys == [i \in 1..n |-> FrameKey(start_frame + i - 1)]
             tree == CreateAll(var_refs, epoch, keys, 0)
         IN Inspect("stackTrace", seq, "dict", NoExc,
                    [kind |-> "stackFrames",
                     ids |-> [i \in 1..n |-> HandleOf(tree, << keys[i] >>)]],
                    tree, NoBody)
\* startFrame 0, levels 1
DEBUG_stackTrace(seq) == DEBUG_stackTraceFrom(seq, 0, 1)

\* DEBUG_scopes
DEBUG_scopes(seq, frame_id) ==
    LET L == Lookup(frame_id)
    IN IF ~L.found
       THEN Inspect("scopes", seq, "None", NoExc, NoBody, var_refs, L)
       ELSE LET tree == CreateAll(var_refs, L.object.epoch, ScopeKeys, frame_id)
            IN Inspect("scopes", seq, "dict", NoExc,
                       [kind |-> "scopes",
                        ids |-> [i \in 1..Len(ScopeKeys) |->
                                   HandleOf(tree, Append(L.object.vpath, ScopeKeys[i]))]],
                       tree, L)

\* DEBUG_variables for a container with one composite child "v"
DEBUG_variables(seq, container_handle) ==
    LET L == Lookup(container_handle)
    IN IF ~L.found
       THEN Inspect("variables", seq, "None", NoExc, NoBody, var_refs, L)
       ELSE LET tree == HandleCreate(var_refs, L.object.epoch, "v", container_handle)
            IN Inspect("variables", seq, "dict", NoExc,
                       [kind |-> "variables",
                        ids |-> << HandleOf(tree, Append(L.object.vpath, "v")) >>],
                       tree, L)

\* DEBUG_setVariable; ok: the variable exists and the backend accepts the value
DEBUG_setVariable(seq, container_handle, ok) ==
    LET L == Lookup(container_handle)
    IN IF ~L.found
       THEN Inspect("setVariable", seq, "None", InternalExc, NoBody, var_refs, L)
       ELSE IF ~ok
       THEN Inspect("setVariable", seq, "None", UserError, NoBody, var_refs, L)
       ELSE Inspect("setVariable", seq, "dict", NoExc, [kind |-> "value"], var_refs, L)

\* DEBUG_threads; tids: the threads of the backend's process, in its order
DEBUG_threads(seq, tids) ==
    IF process = "None"
    THEN Inspect("threads", seq, "None", InternalExc, NoBody, var_refs, NoBody)
    ELSE Inspect("threads", seq, "dict", NoExc, [kind |-> "threads", ids |-> tids],
                 var_refs, NoBody)

(***************************************************************************)
(* Inputs.                                                                 *)
(***************************************************************************)
SourceBreakpoint(line, condition, hitCondition, logMessage) ==
    [line |-> line, condition |-> condition, hitCondition |-> hitCondition,
     logMessage |-> logMessage]
FunctionBreakpoint(name, condition, hitCondition, logMessage) ==
    [name |-> name, condition |-> condition, hitCondition |-> hitCondition,
     logMessage |-> logMessage]

\* Sequences over S of length at most n
SeqsUpTo(S, n) == UNION {[1..k -> S] : k \in 0..n}

ClientSeqs == 1..MaxSeq
FileSource(path) == Source(path, "", NoAD)
DasmSource == Source("", LiveRef, NoAD)

PlainBps == {SourceBreakpoint(l, NoExpr, "", "") : l \in Lines}
PlainFnBps == {FunctionBreakpoint(n, NoExpr, "", "") : n \in {"main"}}
\* Requests of at most n breakpoints of S, listed by increasing line
ByLine(S, n) ==
    {s \in SeqsUpTo(S, n) : \A i, j \in DOMAIN s : i < j => s[i].line < s[j].line}

Conditions == {NoExpr, Expr("/nat ", "x == 1"), Expr("", "x > 1"), Expr("/py ", "x >")}
HitConditions == {"", "2", "x"}
LogMessages == {"", "m {x}"}
SettingBps ==
    {SourceBreakpoint(10, c, h, m) : c \in Conditions, h \in HitConditions,
                                     m \in LogMessages}

DebugLaunch == LaunchArgs("launch", FALSE, SIMPLE, FALSE, TRUE)

(***************************************************************************)
(* The breakpoint registry: reconciliation requests, debugger commands and *)
(* the backend's breakpoint notifications, in a launched session.          *)
(***************************************************************************)
NextBp ==
    \/ ~launch_args.set /\ DEBUG_launch(1, DebugLaunch)
    \/ launch_args.set /\ process = "None" /\ DEBUG_configurationDone(1, TRUE, FALSE)
    \/ \E req_bps \in ByLine(PlainBps, MaxReqLen) :
           DEBUG_setBreakpoints(1, FileSource("a.c"), req_bps)
    \/ \E req_bps \in SeqsUpTo(PlainFnBps, 1) : DEBUG_setFunctionBreakpoints(1, req_bps)
    \/ \E filters \in {{}, {"cpp_throw"}} : DEBUG_setExceptionBreakpoints(1, filters)
    \/ \E command \in 0..MaxBpId : DEBUG_evaluate_command(1, command)
    \/ handle_debugger_event

SpecBp == Init /\ [][NextBp]_vars

(***************************************************************************)
(* Stop settings of one line breakpoint, and its hits.                     *)
(***************************************************************************)
NextCond ==
    \/ ~launch_args.set /\ DEBUG_launch(1, DebugLaunch)
    \/ launch_args.set /\ process = "None" /\ DEBUG_configurationDone(1, TRUE, FALSE)
    \/ \E req_bps \in SeqsUpTo(SettingBps, 1) :
           DEBUG_setBreakpoints(1, FileSource("a.c"), req_bps)
    \/ \E bp_id \in 1..MaxBpId, cond_result \in {"True", "False", "raise"},
          message \in {"m 1", "", "raise"} :
           on_breakpoint_hit(bp_id, cond_result, message)
    \/ DEBUG_continue(1, FALSE)
    \/ handle_debugger_event

SpecCond == Init /\ [][NextCond]_vars

(***************************************************************************)
(* Handles across stops and resumes.                                       *)
(***************************************************************************)
NextHandles ==
    \/ ~launch_args.set /\ DEBUG_launch(1, DebugLaunch)
    \/ launch_args.set /\ process = "None" /\ DEBUG_configurationDone(1, TRUE, TRUE)
    \/ DEBUG_stackTrace(1)
    \/ \E h \in 1..MaxHandles : DEBUG_scopes(1, h)
    \/ \E h \in 1..MaxHandles : DEBUG_variables(1, h)
    \/ \E h \in 1..MaxHandles, ok \in BOOLEAN : DEBUG_setVariable(1, h, ok)
    \/ \E fail \in BOOLEAN : DEBUG_continue(1, fail)
    \/ DEBUG_next(1)
    \/ DEBUG_stepIn(1)
    \/ DEBUG_stepOut(1)
    \/ \E ok \in BOOLEAN : DEBUG_stepBack(1, ok)
    \/ \E ok \in BOOLEAN : DEBUG_reverseContinue(1, ok)
    \/ backend_stop
    \/ handle_debugger_event

SpecHandles == Init /\ [][NextHandles]_vars

(***************************************************************************)
(* The event normalizer: process events of every kind, for processes with  *)
(* one or two threads and breakpoints with and without the exception flag. *)
(***************************************************************************)
\* The stop description the backend gives for a stop reason
Description(reason) == "stopped by " \o reason
StopReasons ==
    {"invalid", "none", "breakpoint", "trace", "plan_complete", "watchpoint", "signal",
     "exception", "exec"}
\* The first thread: any stop reason; the second: a few of them
FirstThreads ==
    {Thread(1, r, 0, Description(r)) : r \in StopReasons \ {"breakpoint"}}
    \cup {Thread(1, "breakpoint", id, Description("breakpoint")) : id \in 1..MaxBpId}
SecondThreads ==
    {Thread(2, r, 0, Description(r)) : r \in {"none", "signal"}}
    \cup {Thread(2, "breakpoint", 1, Description("breakpoint"))}
OneThreadStates ==
    {ProcessState(<< >>, 0)}
    \cup {ProcessState(<< t >>, sel) : t \in FirstThreads, sel \in 0..1}
ProcessStates ==
    OneThreadStates
    \cup {ProcessState(<< t, u >>, sel) :
              t \in FirstThreads, u \in SecondThreads, sel \in 0..2}
BufferSizes == {0, 1, ReadSize, ReadSize + 1, ReadSize + ReadSize}
BackendEvents ==
    {StateEvent(type, FALSE, ProcessState(<< >>, 0), 0) :
        type \in {"running", "detached", "stepping"}}
    \cup {StateEvent("exited", FALSE, ProcessState(<< >>, 0), code) : code \in 0..1}
    \cup {StateEvent("stopped", FALSE, proc, 0) : proc \in ProcessStates}
    \cup {StateEvent("stopped", TRUE, StopAt(id), 0) : id \in 0..1}
    \cup {StateEvent("crashed", FALSE, proc, 0) : proc \in OneThreadStates}
    \cup {StdioEvent(type, avail, late) :
              type \in {"stdout", "stderr"}, avail \in BufferSizes, late \in 0..1}

NextEvents ==
    \/ ~launch_args.set /\ DEBUG_launch(1, DebugLaunch)
    \/ launch_args.set /\ process = "None"
       /\ \E stopped \in BOOLEAN : DEBUG_configurationDone(1, TRUE, stopped)
    \/ \E filters \in {{}, {"cpp_throw"}} : DEBUG_setExceptionBreakpoints(1, filters)
    \/ DEBUG_setBreakpoints(1, FileSource("a.c"),
                            << SourceBreakpoint(10, NoExpr, "", "") >>)
    \/ event_queue = << >> /\ \E ev \in BackendEvents : backend_event(ev)
    \/ event_queue = << >> /\ \E bp_id \in 1..MaxBpId : backend_locations_resolved(bp_id)
    \/ handle_debugger_event

SpecEvents == Init /\ [][NextEvents]_vars

(***************************************************************************)
(* The request router: any request in any session state, deferred launch   *)
(* responses and reverse requests.                                         *)
(***************************************************************************)
NextRouter ==
    \/ \E seq \in ClientSeqs, request \in {"launch", "attach", "custom"},
          terminal \in BOOLEAN, target_ok \in BOOLEAN :
           DEBUG_launch(seq, LaunchArgs(request, FALSE, SIMPLE, terminal, target_ok))
    \/ \E seq \in ClientSeqs, ok \in BOOLEAN, stopped \in BOOLEAN :
           DEBUG_configurationDone(seq, ok, stopped)
    \/ \E seq \in 1..(MaxReverse + 1), success \in BOOLEAN : handle_response(seq, success)
    \/ ~launch_args.set /\ \E seq \in ClientSeqs, req_bps \in SeqsUpTo(PlainBps, 1) :
           DEBUG_setBreakpoints(seq, FileSource("a.c"), req_bps)
    \/ \E seq \in ClientSeqs, fail \in BOOLEAN : DEBUG_continue(seq, fail)
    \/ \E seq \in ClientSeqs, fail \in BOOLEAN : DEBUG_pause(seq, fail)
    \/ \E seq \in ClientSeqs, ok \in BOOLEAN : DEBUG_setVariable(seq, 1, ok)
    \/ \E seq \in ClientSeqs : DEBUG_stackTrace(seq)

SpecRouter == Init /\ [][NextRouter]_vars

(***************************************************************************)
(* The end of the session: an explicit disconnect request and the loss of  *)
(* the client connection (a null message).                                 *)
(***************************************************************************)
\* exec_commands(commands): each command is handed to the command interpreter
\* and its output is written to the console; None and [] run nothing.
RECURSIVE exec_commands(_)
exec_commands(commands) ==
    IF commands = << >> THEN [calls |-> << >>, out |-> << >>]
    ELSE LET rest == exec_commands(Tail(commands))
         IN [calls |-> << Call("HandleCommand", Head(commands)) >> \o rest.calls,
             out |-> console_msg("output of " \o Head(commands), "None") \o rest.out]

\* The arguments of a disconnect: those of the request (terminateDebuggee is
\* "absent", "True" or "False"), or None for a lost connection.
DisconnectArgs(terminateDebuggee) == [null |-> FALSE, terminateDebuggee |-> terminateDebuggee]
NullArgs == [null |-> TRUE, terminateDebuggee |-> "absent"]

\* self.process is truthy: an SBProcess that is valid
Live(proc) == proc \notin {"None", "invalid"}
\* self.process_launched: set by a completed launch, cleared by attach and by
\* a custom launch
process_launched(launch) == launch.set /\ launch.kind = "launch"

\* args.get('terminateDebuggee', self.process_launched)
TerminateDebuggee(launch, args) ==
    IF args.terminateDebuggee = "absent" THEN process_launched(launch)
    ELSE args.terminateDebuggee = "True"

\* DEBUG_disconnect(args): with a live process the arguments are read, which
\* raises for args = None before the process is killed or detached.
disconnect(launch, proc, args) ==
    LET E == exec_commands(launch.exitCommands)
    IN IF Live(proc) /\ args.null
       THEN [exc |-> InternalExc, cleared |-> FALSE, calls |-> E.calls, out |-> E.out]
       ELSE [exc |-> NoExc, cleared |-> TRUE,
             calls |-> E.calls \o (IF Live(proc)
                                   THEN << Call(IF TerminateDebuggee(launch, args)
                                                THEN "Kill" ELSE "Detach", 0) >>
                                   ELSE << >>),
             out |-> E.out \o console_msg("TEST", "None")]

\* What a disconnect looked at: the process and the launch configuration
Before == [process |-> process, launch_args |-> launch_args,
           pending_requests |-> pending_requests]

\* The session state after DEBUG_disconnect ended with result D
Disconnected(D) ==
    /\ process' = IF D.cleared THEN "None" ELSE process
    /\ target' = IF D.cleared THEN FALSE ELSE target
    /\ event_loop' = IF D.cleared THEN "stopped" ELSE event_loop
    /\ UNCHANGED << launch_args, do_launch, bp_vars, handle_vars, known_threads, view_vars,
                    reverse_vars >>

\* handle_message, request branch, for a disconnect request
DEBUG_disconnect(seq, terminateDebuggee) ==
    \E D \in {disconnect(launch_args, process, DisconnectArgs(terminateDebuggee))} :
        /\ Disconnected(D)
        /\ last' = Last("disconnect", seq, D.exc,
                        handle_request("disconnect", seq, "None", D.exc, NoBody, D.out),
                        D.calls, Before)

\* handle_message(None): the client connection is lost; an exception of
\* DEBUG_disconnect leaves handle_message
connection_lost ==
    \E D \in {disconnect(launch_args, process, NullArgs)} :
        /\ Disconnected(D)
        /\ last' = [Last("connection_lost", 0, D.exc, D.out, D.calls, Before)
                    EXCEPT !.escaped = D.exc # NoExc]

DispatchesMutantAfterStop(loop) == TRUE
\* The event loop hands a message to handle_message while it has not been
\* stopped; event_loop.stop() ends the loop after the current message.
Dispatches(loop) == loop = "running"

\* A response of the client arrives: it is dispatched by a running loop only.
response_arrives(seq, success) ==
    IF Dispatches(event_loop) THEN handle_response(seq, success)
    ELSE /\ last' = Last("undelivered", seq, NoExc, << >>, << >>,
                         [matched |-> seq \in pending_requests, success |-> success])
         /\ UNCHANGED << launch_vars, bp_vars, handle_vars, loop_vars, view_vars, reverse_vars >>

ExitCommands == {<< >>, << "log disable" >>}

NextSession ==
    \/ /\ Dispatches(event_loop)
       /\ \E request \in {"launch", "attach", "custom"}, terminal \in BOOLEAN,
             cmds \in ExitCommands :
              DEBUG_launch(1, [LaunchArgs(request, FALSE, SIMPLE, terminal, TRUE)
                               EXCEPT !.exitCommands = cmds])
    \/ /\ Dispatches(event_loop)
       /\ \E ok \in BOOLEAN, stopped \in BOOLEAN : DEBUG_configurationDone(2, ok, stopped)
    \/ /\ Dispatches(event_loop)
       /\ \E code \in 0..1 : backend_event(StateEvent("exited", FALSE, StopAt(0), code))
    \/ Dispatches(event_loop) /\ handle_debugger_event
    \/ /\ Dispatches(event_loop)
       /\ \E seq \in ClientSeqs, terminateDebuggee \in {"absent", "True", "False"} :
              DEBUG_disconnect(seq, terminateDebuggee)
    \/ Dispatches(event_loop) /\ connection_lost
    \/ \E seq \in 1..MaxReverse, success \in BOOLEAN : response_arrives(seq, success)

SpecSession == Init /\ [][NextSession]_vars

(***************************************************************************)
(* Source resolution: the launch configuration's source map, resolutions   *)
(* of the file specs of the debug information, and a changing file system. *)
(***************************************************************************)
\* A handler resolves a file spec of the debug information
\* (set_source_breakpoints, make_bp_resp, stackTrace).
resolve_filespec(filespec) ==
    /\ launch_args.set
    /\ \E R \in {map_filespec_to_local(source_map, filespec_cache,
                                       suppress_missing_sources, files, launch_args,
                                       filespec)} :
          /\ source_map' = R.source_map
          /\ filespec_cache' = R.filespec_cache
          /\ last' = Last("map_filespec_to_local", 0, R.exc, << >>, << >>,
                          [filespec |-> filespec, value |-> R.value,
                           source_map |-> MapInUse(source_map, launch_args),
                           cached |-> CacheKey(filespec) \in DOMAIN filespec_cache,
                           filespec_cache |-> filespec_cache])
    /\ UNCHANGED << launch_vars, bp_vars, handle_vars, loop_vars, reverse_vars,
                    suppress_missing_sources, files, display_settings, executing >>

\* A local file is created or deleted.
file_changes(path) ==
    /\ files' = IF path \in files THEN files \ {path} ELSE files \cup {path}
    /\ last' = Last("file_changes", 0, NoExc, << >>, << >>, [path |-> path])
    /\ UNCHANGED << launch_vars, bp_vars, handle_vars, loop_vars, reverse_vars,
                    source_map, filespec_cache, suppress_missing_sources,
                    display_settings, executing >>

\* Remote paths of the debug information and local paths
RemoteA == << "/", "r", "/", "a" >>
RemoteDotA == << "/", "r", "/", ".", "/", "a" >>
RemoteSA == << "/", "s", "/", "a" >>
LocalA == << "/", "l", "/", "a" >>
LocalMA == << "/", "m", "/", "a" >>
FileSpecs == {FileSpec(TRUE, RemoteA), FileSpec(TRUE, RemoteDotA),
              FileSpec(TRUE, RemoteSA), FileSpec(FALSE, << >>)}
LocalFiles == {LocalA, RemoteSA}
RuleToL == Rule(<< "/", "r" >>, LocalPath(<< "/", "l" >>))
RuleToM == Rule(<< "/", "?", "/" >>, LocalPath(<< "/", "m", "/", ".", "/" >>))
RuleToNone == Rule(<< "/", "r", "/" >>, NonePath)
SourceMaps == {<< >>, << RuleToL, RuleToM >>, << RuleToM, RuleToL >>,
               << RuleToNone, RuleToL >>, << RuleToL, RuleToNone >>}

InitSource ==
    \E suppress \in BOOLEAN, local_files \in SUBSET LocalFiles :
        Constructed(suppress, local_files)

NextSource ==
    \/ \E sourceMap \in SourceMaps :
           DEBUG_launch(1, [DebugLaunch EXCEPT !.sourceMap = sourceMap])
    \/ \E filespec \in FileSpecs : resolve_filespec(filespec)
    \/ \E path \in LocalFiles : file_changes(path)

SpecSource == InitSource /\ [][NextSource]_vars

(***************************************************************************)
(* Function and exception breakpoints with stop settings, in a launched    *)
(* session.                                                                *)
(***************************************************************************)
FnSettings ==
    {<< NoExpr, "", "" >>, << Expr("/nat ", "x == 1"), "", "" >>,
     << Expr("/py ", "x >"), "", "m {x}" >>, << NoExpr, "2", "" >>}
FnSettingBps ==
    {FunctionBreakpoint(n, c[1], c[2], c[3]) : n \in FnNames, c \in FnSettings}
\* Requests of at most n function breakpoints of S with distinct names
ByName(S, n) ==
    {r \in SeqsUpTo(S, n) : \A i, j \in DOMAIN r : i # j => r[i].name # r[j].name}
FilterSets == {{}, {"cpp_throw"}, {"cpp_catch", "rust_panic"}}

NextFn ==
    \/ ~launch_args.set /\ DEBUG_launch(1, DebugLaunch)
    \/ launch_args.set /\ process = "None" /\ DEBUG_configurationDone(1, TRUE, FALSE)
    \/ \E req_bps \in ByName(FnSettingBps, MaxReqLen) :
           DEBUG_setFunctionBreakpoints(1, req_bps)
    \/ \E filters \in FilterSets : DEBUG_setExceptionBreakpoints(1, filters)

SpecFn == Init /\ [][NextFn]_vars

(***************************************************************************)
(* Expression evaluation and display settings.  An expression is a         *)
(* sequence of characters.                                                 *)
(***************************************************************************)
\* format_codes, in the order of the list
FormatCode(suffix, format) == [suffix |-> << ",", suffix >>, format |-> format]
format_codes ==
    << FormatCode("h", "hex"), FormatCode("x", "hex"), FormatCode("o", "octal"),
       FormatCode("d", "decimal"), FormatCode("b", "binary"), FormatCode("f", "float"),
       FormatCode("p", "pointer"), FormatCode("u", "unsigned"),
       FormatCode("s", "cstring"), FormatCode("y", "bytes"),
       FormatCode("Y", "bytes_with_ascii") >>

\* expr.endswith(suffix), expr.startswith(prefix) and expr[:-len(suffix)]
EndsWith(expr, suffix) ==
    /\ Len(suffix) <= Len(expr)
    /\ SubSeq(expr, Len(expr) - Len(suffix) + 1, Len(expr)) = suffix
StartsWith(expr, prefix) ==
    Len(prefix) <= Len(expr) /\ SubSeq(expr, 1, Len(prefix)) = prefix
WithoutSuffix(expr, suffix) == SubSeq(expr, 1, Len(expr) - Len(suffix))

\* evaluate_expr: the format suffix, if any, is parsed off the expression
RECURSIVE ParseSuffix(_, _, _)
ParseSuffix(expr, format, codes) ==
    IF codes = << >> THEN [format |-> format, expr |-> expr]
    ELSE IF EndsWith(expr, Head(codes).suffix)
    THEN [format |-> Head(codes).format, expr |-> WithoutSuffix(expr, Head(codes).suffix)]
    ELSE ParseSuffix(expr, format, Tail(codes))

\* The text of a backend value of expr in a format (get_var_value_not_null),
\* and of a Python value (str)
Rendered(expr, format) == [expr |-> expr, format |-> format]
\* What evaluate_expr_in_frame gives: a backend value without children
\* ("scalar") or with children ("container"), a Python value, or an SBError
Outcomes == {"scalar", "container", "python", "error"}

\* What an evaluation hands back: the exception or the returned value, the
\* console output and the handle tree
Evaluated(exc, result, body, out, tree) ==
    [exc |-> exc, result |-> result, body |-> body, out |-> out, var_refs |-> tree]
ResultBody(result, handle) ==
    [kind |-> "result", result |-> result, variablesReference |-> handle]

\* evaluate_expr, the result is an error: the console in a repl context, a
\* UserError that stays off the console in the others
EvaluationFailedMutantToConsole(context, tree) ==
    Evaluated(UserError, "None", NoBody, << >>, tree)
evaluation_failed(context, tree) ==
    IF context = "repl"
    THEN Evaluated(NoExc, "None", NoBody, console_err("evaluation error"), tree)
    ELSE Evaluated(UserErrorNoConsole, "None", NoBody, << >>, tree)

\* evaluate_expr_in_frame(expr, frame): the value of expr in the frame, or with
\* no frame (NotFound) in the default context
ValueIn(frame, expr) == << frame.vpath, expr >>
\* The expression as the key of its handle
RECURSIVE Text(_)
Text(expr) == IF expr = << >> THEN "" ELSE Head(expr) \o Text(Tail(expr))
\* evaluate_expr(args, expr); e: the generation of the inferior's state
evaluate_expr(context, expr, outcome, global_format, tree, e, frame_id) ==
    LET P == ParseSuffix(expr, global_format, format_codes)
    IN IF outcome = "error" THEN evaluation_failed(context, tree)
       ELSE IF outcome = "python"
       THEN Evaluated(NoExc, "dict", ResultBody(Rendered(P.expr, "str"), 0), << >>, tree)
       ELSE IF outcome = "container"
       THEN Evaluated(NoExc, "dict",
                      ResultBody(Rendered(P.expr, P.format),
                                 HandleOf(HandleCreate(tree, e, Text(P.expr), 0),
                                          << Text(P.expr) >>)),
                      << >>,
                      HandleStore(HandleCreate(tree, e, Text(P.expr), 0),
                                  HandleOf(HandleCreate(tree, e, Text(P.expr), 0),
                                           << Text(P.expr) >>),
                                  ValueIn(HandleGet(tree, frame_id), P.expr)))
       ELSE Evaluated(NoExc, "dict", ResultBody(Rendered(P.expr, P.format), 0), << >>,
                      tree)

\* DEBUG_evaluate(args) without the evaluation: no process, or a debugger
\* command, whose output or error text is the result
evaluate_command(proc, expr, outcome, tree) ==
    IF proc = "None"
    THEN Evaluated(NoExc, "dict", ResultBody(Rendered(<< >>, "str"), 0), << >>, tree)
    ELSE Evaluated(NoExc, "dict",
                   ResultBody(Rendered(expr, IF outcome = "error" THEN "GetError"
                                             ELSE "GetOutput"), 0),
                   << >>, tree)

\* DEBUG_evaluate(args); context "None": the request has no context
evaluate(proc, context, expr, outcome, global_format, tree, e, frame_id) ==
    IF proc = "None" THEN evaluate_command(proc, expr, outcome, tree)
    ELSE IF context \in {"watch", "hover", "None"}
    THEN evaluate_expr(context, expr, outcome, global_format, tree, e, frame_id)
    ELSE IF StartsWith(expr, << "?" >>)
    THEN evaluate_expr(context, Tail(expr), outcome, global_format, tree, e, frame_id)
    ELSE evaluate_command(proc, expr, outcome, tree)

DEBUG_evaluate(seq, context, expr, outcome, frame_id) ==
    \E E \in {evaluate(process, context, expr, outcome, display_settings.global_format,
                       var_refs, epoch, frame_id)} :
        /\ E.var_refs.next <= MaxHandles + 1
        /\ var_refs' = E.var_refs
        /\ last' = Last("evaluate", seq, E.exc,
                        handle_request("evaluate", seq, E.result, E.exc, E.body, E.out),
                        << >>,
                        [context |-> context, expression |-> expr, outcome |-> outcome,
                         process |-> process, frameId |-> frame_id,
                         display_settings |-> display_settings])
        /\ UNCHANGED << epoch, launch_vars, bp_vars, reverse_vars, loop_vars, view_vars >>

\* update_display_settings(settings): the displayFormat names a format
DisplayFormat(name) ==
    IF name \in {"hex", "decimal", "binary"} THEN name ELSE "default"
update_display_settings(settings) ==
    [show_disassembly |-> settings.showDisassembly,
     global_format |-> DisplayFormat(settings.displayFormat),
     deref_pointers |-> settings.dereferencePointers]
\* refresh_client_display: a faked stop of the selected thread; without a
\* process self.process.GetSelectedThread() raises
refresh_client_display(proc) ==
    IF proc = "None" THEN [exc |-> InternalExc, out |-> << >>]
    ELSE [exc |-> NoExc,
          out |-> << Event("continued", [kind |-> "continued", threadId |-> 1,
                                         allThreadsContinued |-> TRUE]),
                     Event("stopped", [kind |-> "stopped", allThreadsStopped |-> TRUE,
                                       reason |-> "mode switch", threadId |-> 1,
                                       text |-> ""]) >>]

\* DEBUG_displaySettings(args)
DEBUG_displaySettings(seq, settings) ==
    /\ display_settings' = update_display_settings(settings)
    /\ last' = Last("displaySettings", seq, refresh_client_display(process).exc,
                    handle_request("displaySettings", seq, "None",
                                   refresh_client_display(process).exc, NoBody,
                                   refresh_client_display(process).out),
                    << >>, [settings |-> settings])
    /\ UNCHANGED << launch_vars, bp_vars, handle_vars, loop_vars, reverse_vars,
                    source_map, filespec_cache, suppress_missing_sources, files,
                    executing >>

Contexts == {"watch", "hover", "repl", "None"}
Expressions ==
    {<< "x" >>, << "x", ",", "x" >>, << "x", ",", "d" >>, << "x", ",", "Y" >>,
     << "?", "x" >>, << "?", "x", ",", "x" >>, << "b", "t" >>, << "b", ",", "s" >>}
DisplaySettings ==
    {[showDisassembly |-> "auto", displayFormat |-> f, dereferencePointers |-> TRUE] :
         f \in {"hex", "decimal", "auto"}}

NextEval ==
    \/ ~launch_args.set /\ DEBUG_launch(1, DebugLaunch)
    \/ launch_args.set /\ process = "None" /\ DEBUG_configurationDone(1, TRUE, TRUE)
    \/ \E settings \in DisplaySettings : DEBUG_displaySettings(1, settings)
    \/ \E context \in Contexts, expr \in Expressions, outcome \in Outcomes :
           DEBUG_evaluate(1, context, expr, outcome, 0)

SpecEval == Init /\ [][NextEval]_vars

(***************************************************************************)
(* Breakpoints of a disassembly view, and of a source that carries the     *)
(* adapterData of an earlier response.                                     *)
(***************************************************************************)
\* The adapterData of the sources in the response of the last step: what the
\* client has to pass back
AdapterDataSent ==
    UNION {{last.sent[i].body.breakpoints[k].adapterData :
                k \in DOMAIN last.sent[i].body.breakpoints} :
           i \in {j \in DOMAIN last.sent :
                      /\ last.sent[j].type = "response"
                      /\ last.sent[j].body.kind = "breakpoints"}} \ {NoAD}
SavedSource(adapter_data) == Source("b.c", StaleRef, adapter_data)

NextDasm ==
    \/ ~launch_args.set /\ DEBUG_launch(1, DebugLaunch)
    \/ \E req_bps \in ByLine(PlainBps, MaxReqLen) :
           DEBUG_setBreakpoints(1, DasmSource, req_bps)
    \/ \E req_bps \in ByLine(PlainBps, MaxReqLen) :
           /\ last.op = "setBreakpoints"
           /\ \E adapter_data \in AdapterDataSent :
                  DEBUG_setBreakpoints(1, SavedSource(adapter_data), req_bps)

SpecDasm == Init /\ [][NextDasm]_vars

(***************************************************************************)
(* The threads that run the engine's code.  The event loop runs the        *)
(* handlers of requests and of queued backend events, one at a time; the   *)
(* backend calls on_breakpoint_hit itself, on the thread that stops the    *)
(* inferior, while the inferior runs (the debugger is asynchronous).       *)
(***************************************************************************)
\* The event loop takes a message or a queued event and calls its handler
loop_enter ==
    /\ "loop" \notin executing
    /\ executing' = executing \cup {"loop"}
    /\ last' = Last("enter", 0, NoExc, << >>, << >>, [thread |-> "loop"])
    /\ UNCHANGED << launch_vars, bp_vars, handle_vars, loop_vars, reverse_vars,
                    source_map, filespec_cache, suppress_missing_sources, files,
                    display_settings >>
\* The backend calls the script callback of a breakpoint the inferior has hit
callback_enter ==
    /\ "callback" \notin executing
    /\ process = "running"
    /\ \E bp_id \in DOMAIN backend_bps : backend_bps[bp_id].callback = "on_breakpoint_hit"
    /\ executing' = executing \cup {"callback"}
    /\ last' = Last("enter", 0, NoExc, << >>, << >>, [thread |-> "callback"])
    /\ UNCHANGED << launch_vars, bp_vars, handle_vars, loop_vars, reverse_vars,
                    source_map, filespec_cache, suppress_missing_sources, files,
                    display_settings >>
\* The handler, or the callback, returns
leave(thread) ==
    /\ thread \in executing
    /\ executing' = executing \ {thread}
    /\ last' = Last("leave", 0, NoExc, << >>, << >>, [thread |-> thread])
    /\ UNCHANGED << launch_vars, bp_vars, handle_vars, loop_vars, reverse_vars,
                    source_map, filespec_cache, suppress_missing_sources, files,
                    display_settings >>

\* The event loop has entered a handler that has not run yet
LoopRuns == "loop" \in executing /\ last.op = "enter" /\ last.arg.thread = "loop"
NextThreads ==
    \/ loop_enter
    \/ callback_enter
    \/ \E thread \in {"loop", "callback"} : leave(thread)
    \/ LoopRuns /\ ~launch_args.set /\ DEBUG_launch(1, DebugLaunch)
    \/ LoopRuns /\ launch_args.set /\ process = "None"
       /\ DEBUG_configurationDone(1, TRUE, FALSE)
    \/ LoopRuns
       /\ \E req_bps \in SeqsUpTo(SettingBps, 1) :
              DEBUG_setBreakpoints(1, FileSource("a.c"), req_bps)
    \/ LoopRuns /\ DEBUG_continue(1, FALSE)
    \/ LoopRuns /\ handle_debugger_event
    \/ "callback" \in executing
       /\ \E bp_id \in 1..MaxBpId, cond_result \in {"True", "False", "raise"},
             message \in {"m 1", "", "raise"} :
              on_breakpoint_hit(bp_id, cond_result, message)

SpecThreads == Init /\ [][NextThreads]_vars

(***************************************************************************)
(* Handles of the frames, scopes and values of one stop: stack traces of   *)
(* two frames and expressions evaluated in either of them.                 *)
(***************************************************************************)
WatchExpressions == {<< "x" >>, << "x", ",", "x" >>}
\* The frame ids a client has: those of the frames of a stack trace
IsFrame(handle) ==
    \E i \in 0..(NumFrames - 1) : HandleGet(var_refs, handle).vpath = << FrameKey(i) >>
NextValues ==
    \/ ~launch_args.set /\ DEBUG_launch(1, DebugLaunch)
    \/ launch_args.set /\ process = "None" /\ DEBUG_configurationDone(1, TRUE, TRUE)
    \/ \E start_frame \in 0..(NumFrames - 1) : DEBUG_stackTraceFrom(1, start_frame, 1)
    \/ \E h \in 1..MaxHandles : IsFrame(h) /\ DEBUG_scopes(1, h)
    \/ \E expr \in WatchExpressions, outcome \in {"scalar", "container"},
          frame_id \in 1..MaxHandles :
           /\ IsFrame(frame_id)
           /\ DEBUG_evaluate(1, "watch", expr, outcome, frame_id)
    \/ DEBUG_continue(1, FALSE)
    \/ backend_stop
    \/ handle_debugger_event

SpecValues == Init /\ [][NextValues]_vars

(***************************************************************************)
(* The requests that do not resume the inferior, and the backend's events, *)
(* while handles of a stop are out.                                        *)
(***************************************************************************)
\* The handles of scopes and of composite values
IsContainer(handle) == handle \in DOMAIN var_refs.objs /\ ~IsFrame(handle)
\* The client holds handles of the current stop
HandlesOut == var_refs.objs # << >>
NextInspect ==
    \/ ~launch_args.set /\ DEBUG_launch(1, DebugLaunch)
    \/ launch_args.set /\ process = "None" /\ DEBUG_configurationDone(1, TRUE, TRUE)
    \/ HandlesOut /\ DEBUG_setBreakpoints(1, FileSource("a.c"),
                                           << SourceBreakpoint(10, NoExpr, "", "") >>)
    \/ HandlesOut /\ DEBUG_setFunctionBreakpoints(1, << FunctionBreakpoint("main", NoExpr,
                                                                        "", "") >>)
    \/ HandlesOut /\ DEBUG_setExceptionBreakpoints(1, {"cpp_throw"})
    \/ HandlesOut /\ DEBUG_threads(1, << 1 >>)
    \/ DEBUG_stackTraceFrom(1, 0, NumFrames)
    \/ \E h \in 1..MaxHandles : IsFrame(h) /\ DEBUG_scopes(1, h)
    \/ \E h \in 1..MaxHandles : IsContainer(h) /\ DEBUG_variables(1, h)
    \/ \E outcome \in {"scalar", "container"}, frame_id \in 1..MaxHandles :
           /\ IsFrame(frame_id)
           /\ DEBUG_evaluate(1, "watch", << "x" >>, outcome, frame_id)
    \/ HandlesOut /\ DEBUG_displaySettings(1, [showDisassembly |-> "auto",
                                                displayFormat |-> "hex",
                                                dereferencePointers |-> TRUE])
    \/ HandlesOut /\ DEBUG_pause(1, FALSE)
    \/ HandlesOut /\ event_queue = << >> /\ backend_event(StdioEvent("stdout", 1, 0))
    \/ HandlesOut /\ event_queue = << >> /\ backend_locations_resolved(1)
    \/ handle_debugger_event

SpecInspect == Init /\ [][NextInspect]_vars

(***************************************************************************)
(* The two phases of a launch: the launch request, the configuration       *)
(* requests of the client, configurationDone.                              *)
(***************************************************************************)
NextLaunch ==
    \/ ~launch_args.set /\
          \E request \in {"launch", "attach", "custom"}, noDebug \in BOOLEAN,
             target_ok \in BOOLEAN :
              DEBUG_launch(1, LaunchArgs(request, noDebug, SIMPLE, FALSE, target_ok))
    \/ \E source \in {FileSource("a.c"), FileSource("b.c")},
          req_bps \in SeqsUpTo(PlainBps, 1) : DEBUG_setBreakpoints(2, source, req_bps)
    \/ launch_args.set /\ process = "None" /\
          \E ok \in BOOLEAN, stopped \in BOOLEAN : DEBUG_configurationDone(3, ok, stopped)
    \/ DEBUG_continue(4, FALSE)
    \/ backend_stop
    \/ handle_debugger_event

SpecLaunch == Init /\ [][NextLaunch]_vars

(***************************************************************************)
(* Breakpoints of two source files, of functions and of exceptions, side   *)
(* by side.                                                                *)
(***************************************************************************)
NextFiles ==
    \/ ~launch_args.set /\ DEBUG_launch(1, DebugLaunch)
    \/ launch_args.set /\ process = "None" /\ DEBUG_configurationDone(1, TRUE, FALSE)
    \/ \E path \in Paths, req_bps \in ByLine(PlainBps, 2) :
           DEBUG_setBreakpoints(1, FileSource(path), req_bps)
    \/ \E req_bps \in SeqsUpTo(PlainFnBps, 1) : DEBUG_setFunctionBreakpoints(1, req_bps)
    \/ \E filters \in {{}, {"cpp_throw"}} : DEBUG_setExceptionBreakpoints(1, filters)

SpecFiles == Init /\ [][NextFiles]_vars

(***************************************************************************)
(* Properties.                                                             *)
(***************************************************************************)
\* The operations that are client requests, and the command each answers.
LaunchOps == {"launch", "attach", "custom"}
Command(op) == IF op = "custom" THEN "launch" ELSE op
\* The responses among the messages of the last step
Responses == {i \in DOMAIN last.sent : last.sent[i].type = "response"}
\* The number of backend calls f of the last step, and those with argument arg
Calls(f) == Cardinality({i \in DOMAIN last.calls : last.calls[i].f = f})
CallsWith(f, arg) == Cardinality({i \in DOMAIN last.calls : last.calls[i] = Call(f, arg)})
\* The last step was a setBreakpoints request of a launched debug session for a
\* source file
Reconciling ==
    /\ last.op = "setBreakpoints"
    /\ launch_args.set /\ ~launch_args.noDebug /\ target
    /\ last.arg.source.path \in Paths

\* C1: a setBreakpoints request keeps the id of every line requested again,
\* deletes (with exactly one backend delete) every line no longer requested,
\* creates exactly one backend breakpoint for every new line, and answers with
\* one entry per requested breakpoint, in request order.
C1_ReconcileKeepsDeletesCreates ==
    Reconciling =>
        LET old == last.arg.old
            req == last.arg.breakpoints
            idx == line_breakpoints[last.arg.source.path]
            resp == last.sent[Len(last.sent)]
        IN /\ last.exc = NoExc
           /\ \A l \in Present(old) \cap ReqLines(req) : idx[l] = old[l]
           /\ \A l \in Present(old) \ ReqLines(req) :
                  CallsWith("BreakpointDelete", old[l]) = 1 /\ idx[l] = 0
           /\ Calls("BreakpointDelete") = Cardinality(Present(old) \ ReqLines(req))
           /\ Calls("BreakpointCreateByLocation")
                  = Cardinality(ReqLines(req) \ Present(old))
           /\ \A l \in ReqLines(req) \ Present(old) :
                  CallsWith("BreakpointCreateByLocation", l) = 1 /\ idx[l] # 0
           /\ resp.type = "response" /\ resp.success
           /\ resp.body.kind = "breakpoints"
           /\ Len(resp.body.breakpoints) = Len(req)
           /\ \A i \in DOMAIN req : resp.body.breakpoints[i].id = idx[req[i].line]

\* What a request asks of a breakpoint: the native condition of the backend,
\* the compiled predicate, the ignore count and the log message.
WantedNative(req) ==
    IF Truthy(req.condition) /\ get_expression_type(req.condition, launch_args).ty = NATIVE
    THEN req.condition.text ELSE ""
WantedPredicate(req) ==
    IF Truthy(req.condition) /\ get_expression_type(req.condition, launch_args).ty # NATIVE
    THEN make_expression_bpcond(get_expression_type(req.condition, launch_args).ty,
                                req.condition.text)
    ELSE NoCond
WantedIgnoreCount(req) ==
    IF req.hitCondition \in IntStrings THEN ParseInt(req.hitCondition) ELSE 0

\* C2: after a setBreakpoints pass every requested breakpoint has exactly the
\* stop settings of the latest request: its native condition or compiled
\* predicate, its ignore count and its log message, and nothing an earlier pass
\* installed.
C2_SettingsAreTheLatestRequest ==
    (Reconciling /\ last.exc = NoExc) =>
        \A i \in DOMAIN last.arg.breakpoints :
            LET req == last.arg.breakpoints[i]
                id == line_breakpoints[last.arg.source.path][req.line]
            IN /\ id \in DOMAIN breakpoints /\ id \in DOMAIN backend_bps
               /\ backend_bps[id].condition = WantedNative(req)
               /\ breakpoints[id].condition = WantedPredicate(req)
               /\ breakpoints[id].ignore_count = WantedIgnoreCount(req)
               /\ backend_bps[id].ignore_count = WantedIgnoreCount(req)
               /\ breakpoints[id].log_message = req.logMessage

\* The breakpoint events that wait to be handled
QueuedBpEvents == {i \in DOMAIN event_queue : event_queue[i].kind = "breakpoint"}
\* The backend breakpoints the engine created or has observed: a breakpoint set
\* by a debugger command is observed when its "added" event has been handled.
KnownBackendBps ==
    {id \in DOMAIN backend_bps :
        \/ backend_bps[id].kind # "user"
        \/ \A i \in QueuedBpEvents : event_queue[i] # BpEvent("added", id)}
BpRequests == {"setBreakpoints", "setFunctionBreakpoints", "setExceptionBreakpoints"}

\* C3 as stated: in every reachable state the ids holding a BreakpointInfo are
\* exactly the backend breakpoints the engine created or observed that still
\* exist.
C3_RegistryEqualsBackendAlways == DOMAIN breakpoints = KnownBackendBps

\* C3 amended: whenever no breakpoint event waits to be handled, the ids holding
\* a BreakpointInfo are exactly the existing backend breakpoints; and every
\* breakpoint a request asks the backend to delete is gone from the backend and
\* from the registry when that request ends.
C3_RegistryMatchesBackendWhenQuiescent ==
    /\ QueuedBpEvents = {} => DOMAIN breakpoints = DOMAIN backend_bps
    /\ last.op \in BpRequests =>
           \A i \in DOMAIN last.calls :
               last.calls[i].f = "BreakpointDelete" =>
                   /\ last.calls[i].arg \notin DOMAIN backend_bps
                   /\ last.calls[i].arg \notin DOMAIN breakpoints

\* C3 witness: a setBreakpoints request has deleted one breakpoint of the backend
\* and kept or created another; no event waits and both sides hold the same ids.
C3_Witness_EngineDelete ==
    /\ last.op = "setBreakpoints"
    /\ Calls("BreakpointDelete") = 1
    /\ QueuedBpEvents = {}
    /\ DOMAIN breakpoints = DOMAIN backend_bps
    /\ DOMAIN breakpoints # {}

\* The objects of the handle tree that were read before the latest resume
StaleHandles == {h \in DOMAIN var_refs.objs : var_refs.objs[h].epoch < epoch}
ResumeOps == {"continue", "next", "stepIn", "stepOut", "stepBack", "reverseContinue"}
LookupOps == {"scopes", "variables", "setVariable"}

\* C4: a handle obtained before a resume is not found by scopes, variables and
\* setVariable after it, whichever request resumed; a handle of the new
\* generation never resolves to an object of the old one.
C4_StaleHandleNotFound ==
    (last.op \in LookupOps /\ last.arg.found) => last.arg.object.epoch = epoch

\* The position of the first call f among the backend calls of the last step
\* (0 when there is none)
FirstCall(f) ==
    IF Calls(f) = 0 THEN 0
    ELSE CHOOSE i \in DOMAIN last.calls :
             last.calls[i].f = f /\ \A j \in 1..(i - 1) : last.calls[j].f # f

\* C5: every resuming request resets the Handle Tree before it issues its first
\* command to the backend, so the backend is never told to resume while handles
\* of the previous stop still resolve.
C5_ResetBeforeResume ==
    (last.op \in ResumeOps /\ last.arg.resumed) =>
        /\ FirstCall("reset") = 1
        /\ StaleHandles = {}

\* C6: a deferred launch or attach request gets exactly one response: never two,
\* and it is never replaced by another launch before it was answered.
C6_ExactlyOneLaunchResponse ==
    /\ launch_args.responses <= 1
    /\ last.op \in LaunchOps => ~last.arg.orphaned

RouterOps ==
    LaunchOps \cup BpRequests \cup ResumeOps \cup LookupOps
    \cup {"configurationDone", "stackTrace", "evaluate"}

\* C7: when the handler of a request raises, the router sends exactly one
\* response, with the request's seq, success = false and an error body, nothing
\* escapes handle_message, and the next request can be handled.
C7_HandlerErrorAnswered ==
    (last.op \in RouterOps /\ last.exc # NoExc) =>
        /\ ~last.escaped
        /\ Cardinality(Responses) = 1
        /\ \A i \in Responses :
               /\ i = Len(last.sent)
               /\ last.sent[i].name = Command(last.op)
               /\ last.sent[i].seq = last.seq
               /\ ~last.sent[i].success
               /\ last.sent[i].body.kind = "error"
               /\ last.sent[i].body.showUser
        /\ ENABLED DEBUG_stackTrace(1)

\* C7 witness: a launch that fails with a UserError has been answered.
C7_Witness_UserError ==
    /\ last.op = "launch" /\ last.exc = UserError
    /\ Cardinality(Responses) = 1
    /\ ~last.sent[Len(last.sent)].success

\* The reverse requests among the messages of the last step
Requests == {i \in DOMAIN last.sent : last.sent[i].type = "request"}

\* C8 (state part): every pending callback is registered under a sequence
\* number that was given out and has not been answered, and no callback has been
\* invoked twice or for a number not given out.
C8_CallbackAtMostOnce ==
    /\ \A s \in pending_requests : s < request_seq /\ cb_calls[s] = 0
    /\ \A s \in DOMAIN cb_calls : cb_calls[s] <= 1 /\ (s >= request_seq => cb_calls[s] = 0)

\* C8 (step part): a reverse request takes the next sequence number, which is
\* not pending, and registers its callback; the first response to it invokes
\* the callback once and removes it; a response without a pending entry changes
\* nothing.
C8_Step ==
    /\ request_seq' # request_seq =>
           /\ request_seq' = request_seq + 1
           /\ request_seq \notin pending_requests
           /\ pending_requests' = pending_requests \cup {request_seq}
           /\ \E i \in DOMAIN last'.sent :
                  last'.sent[i].type = "request" /\ last'.sent[i].seq = request_seq
    /\ last'.op = "response" =>
           IF last'.seq \in pending_requests
           THEN /\ cb_calls' = [cb_calls EXCEPT ![last'.seq] = 1]
                /\ pending_requests' = pending_requests \ {last'.seq}
           ELSE /\ ~last'.escaped
                /\ UNCHANGED << launch_vars, bp_vars, handle_vars, loop_vars, view_vars, reverse_vars >>

\* C8: each reverse request gets a fresh sequence number and one callback under
\* it; the callback is invoked exactly once, by the first response with that
\* number and never by a duplicate; an unmatched response invokes no callback,
\* changes no state and does not raise.
C8_ReverseRequests == []C8_CallbackAtMostOnce /\ [][C8_Step]_vars

\* C8 witness: a duplicate of an answered response has been dropped.
C8_Witness_DuplicateDropped ==
    /\ last.op = "response" /\ ~last.arg.matched
    /\ cb_calls[last.seq] = 1

\* The hit the last step was about
Hit == last.arg
HitInfo == breakpoints[last.arg.bp_id]
HitBreakpoint == last.op = "on_breakpoint_hit" /\ last.arg.bp_id \in DOMAIN breakpoints
Outputs(category) ==
    {i \in DOMAIN last.sent : last.sent[i].name = "output"
                              /\ last.sent[i].body.category = category}
\* The formatted log message was emitted, and nothing else
EmittedLog ==
    last.sent = << Event("output", [kind |-> "output", category |-> "None",
                                    output |-> Hit.message]) >>

\* C9 as stated: a false condition gives do-not-stop without a log message;
\* otherwise a log message is formatted and emitted and the result is
\* do-not-stop; otherwise the result is stop.
C9_StopOrder_AsStated ==
    HitBreakpoint =>
        IF HitInfo.condition # NoCond /\ Hit.cond_result = "False"
        THEN ~Hit.stop /\ last.sent = << >>
        ELSE IF HitInfo.log_message # ""
        THEN ~Hit.stop /\ EmittedLog
        ELSE Hit.stop

\* C9 amended: a false condition gives do-not-stop without a log message; a
\* condition that raises gives stop with a console error and no log message;
\* otherwise a log message is formatted: when that succeeds it is emitted (as
\* an output event unless it is empty) with do-not-stop, when it raises the
\* result is stop with a console error; otherwise the result is stop.
C9_StopOrder ==
    HitBreakpoint =>
        IF HitInfo.condition # NoCond /\ Hit.cond_result = "False"
        THEN ~Hit.stop /\ last.sent = << >>
        ELSE IF HitInfo.condition # NoCond /\ Hit.cond_result = "raise"
        THEN Hit.stop /\ Len(last.sent) = 1 /\ Outputs("stderr") = {1}
        ELSE IF HitInfo.log_message # "" /\ Hit.message = "raise"
        THEN Hit.stop /\ Len(last.sent) = 1 /\ Outputs("stderr") = {1}
        ELSE IF HitInfo.log_message # "" /\ Hit.message = ""
        THEN ~Hit.stop /\ last.sent = << >>
        ELSE IF HitInfo.log_message # ""
        THEN ~Hit.stop /\ EmittedLog
        ELSE Hit.stop /\ last.sent = << >>

\* C9 witness: a hit whose condition held and whose log message was emitted
C9_Witness_ConditionThenLog ==
    /\ HitBreakpoint
    /\ HitInfo.condition # NoCond /\ Hit.cond_result = "True"
    /\ HitInfo.log_message # "" /\ EmittedLog /\ ~Hit.stop

\* A hit of a breakpoint with a log message and no condition
LogPointHit == HitBreakpoint /\ HitInfo.log_message # "" /\ HitInfo.condition = NoCond
\* The hit led to a stop: the process stopped and its stop event is queued
LedToStop ==
    /\ process = "stopped"
    /\ event_queue # << >>
    /\ event_queue[Len(event_queue)] = ProcessEvent("stopped", Hit.bp_id)

\* C10 as stated: a hit of a breakpoint with a log message and no condition
\* always emits the formatted message as an output event and never stops.
C10_LogPoint_AsStated ==
    LogPointHit => /\ Outputs("None") # {}
                   /\ ~Hit.stop /\ ~LedToStop

\* C10 amended: a hit of a breakpoint with a log message and no condition whose
\* message formats without raising emits the formatted message as one output
\* event, unless the formatted message is empty, and does not stop; when
\* formatting raises, a console error is emitted and the hit stops.
C10_LogPoint ==
    LogPointHit =>
        IF Hit.message = "raise"
        THEN Hit.stop /\ LedToStop /\ Outputs("None") = {} /\ Outputs("stderr") = {1}
        ELSE /\ ~Hit.stop /\ ~LedToStop
             /\ IF Hit.message = "" THEN last.sent = << >> ELSE EmittedLog

\* C10 witness: a hit of such a breakpoint whose message was emitted
C10_Witness_LogEmitted ==
    /\ LogPointHit /\ Hit.message = "m 1"
    /\ EmittedLog /\ ~Hit.stop

\* C11: when evaluating the condition of the hit breakpoint or formatting its
\* log message raises, the failure is written to the console as an error output
\* event and the hit stops.
C11_RaiseIsReportedAndStops ==
    (HitBreakpoint /\ (Hit.cond_result = "raise" \/ Hit.message = "raise")) =>
        /\ Len(last.sent) = 1
        /\ Outputs("stderr") = {1}
        /\ Hit.stop
        /\ LedToStop

\* C11 witness: formatting the log message raised after the condition held
C11_Witness_LogMessageRaises ==
    /\ HitBreakpoint /\ Hit.cond_result = "True" /\ Hit.message = "raise"
    /\ Outputs("stderr") = {1} /\ Hit.stop

\* The process event the last step handled
ProcessStep == last.op = "process_event"
Ev == last.arg.event
\* The event is a stop that is interpreted: stopped and not restarted, or crashed
StopHandled ==
    ProcessStep /\ (Ev.type = "crashed" \/ (Ev.type = "stopped" /\ ~Ev.restarted))
StoppedEvents == {i \in DOMAIN last.sent : last.sent[i].name = "stopped"}
\* The thread the stop is attributed to: the selected thread when it is valid
\* and has a concrete stop reason, else the first thread in enumeration order
\* that has one (0 when there is none)
HasReason(t) == t.reason # "invalid" /\ t.reason # "none"
SelectedHasReason(proc) == proc.selected # 0 /\ HasReason(proc.threads[proc.selected])
Attributed(proc) ==
    IF SelectedHasReason(proc) THEN proc.selected
    ELSE IF \E i \in DOMAIN proc.threads : HasReason(proc.threads[i])
    THEN CHOOSE i \in DOMAIN proc.threads :
             HasReason(proc.threads[i])
             /\ \A j \in DOMAIN proc.threads : HasReason(proc.threads[j]) => i <= j
    ELSE 0
StopThread == Ev.proc.threads[Attributed(Ev.proc)]
\* The stop is attributed to a thread
Attributable == StopHandled /\ Attributed(Ev.proc) # 0
\* The one stopped event of the step
TheStopped == last.sent[CHOOSE i \in StoppedEvents : TRUE]

\* C12: for a stop whose stopped thread reports stop reason breakpoint, the
\* stopped event has reason "exception" when the breakpoint id has a
\* BreakpointInfo flagged exception_bp, and reason "breakpoint" otherwise.
C12_BreakpointStopReason ==
    (Attributable /\ StopThread.reason = "breakpoint") =>
        /\ Cardinality(StoppedEvents) = 1
        /\ TheStopped.body.reason =
               IF StopThread.data \in DOMAIN breakpoints
                  /\ breakpoints[StopThread.data].exception_bp
               THEN "exception" ELSE "breakpoint"

\* C12 witness: a stop at an exception breakpoint was reported as "exception"
C12_Witness_ExceptionBreakpoint ==
    /\ Attributable /\ StopThread.reason = "breakpoint"
    /\ StopThread.data \in DOMAIN breakpoints
    /\ breakpoints[StopThread.data].exception_bp
    /\ TheStopped.body.reason = "exception"

\* The name a stop reason is reported under
ReasonName(t) ==
    CASE t.reason = "breakpoint" ->
             IF t.data \in DOMAIN breakpoints /\ breakpoints[t.data].exception_bp
             THEN "exception" ELSE "breakpoint"
      [] t.reason \in {"trace", "plan_complete"} -> "step"
      [] t.reason \in {"watchpoint", "signal", "exception"} -> t.reason
      [] OTHER -> "unknown"

\* C13: the stopped thread is the selected thread when it is valid and has a
\* concrete stop reason, and then the selection is not changed; otherwise it is
\* the first thread in enumeration order with a concrete stop reason, which is
\* re-selected; the reason and threadId of the stopped event are that thread's.
C13_StoppedThreadSelection ==
    Attributable =>
        /\ last.calls = IF SelectedHasReason(Ev.proc) THEN << >>
                        ELSE << Call("SetSelectedThread", StopThread.tid) >>
        /\ Cardinality(StoppedEvents) = 1
        /\ TheStopped.body.threadId = StopThread.tid
        /\ TheStopped.body.reason = ReasonName(StopThread)

\* C13 witness: the selected thread had no stop reason and the second thread,
\* the first with one, was re-selected and reported
C13_Witness_Rescanned ==
    /\ Attributable
    /\ Ev.proc.selected = 1 /\ Attributed(Ev.proc) = 2
    /\ last.calls = << Call("SetSelectedThread", 2) >>
    /\ TheStopped.body.threadId = 2

\* The stops that carry the backend's description
DescribedStop == StopThread.reason \notin {"breakpoint", "trace", "plan_complete"}
ConsoleOutputs == {i \in DOMAIN last.sent : last.sent[i].name = "output"}

\* C14: for a signal, watchpoint, exception or unknown stop a console output
\* event containing the backend's stop description is emitted, followed by the
\* stopped event, whose reason is the normalized name and whose text is the
\* description; for breakpoint and step stops there is no description output
\* and no text.
C14_StopDescription ==
    Attributable =>
        IF DescribedStop
        THEN /\ Len(last.sent) >= 2
             /\ StoppedEvents = {Len(last.sent)}
             /\ ConsoleOutputs = {Len(last.sent) - 1}
             /\ last.sent[Len(last.sent) - 1].body.output
                    = "Stop reason: " \o StopThread.description
             /\ TheStopped.body.text = StopThread.description
             /\ TheStopped.body.reason \in {"signal", "watchpoint", "exception", "unknown"}
             /\ TheStopped.body.reason = ReasonName(StopThread)
        ELSE /\ ConsoleOutputs = {}
             /\ StoppedEvents = {Len(last.sent)}
             /\ TheStopped.body.text = ""

\* C14 witness: a signal stop was reported with its description
C14_Witness_SignalStop ==
    /\ Attributable /\ StopThread.reason = "signal"
    /\ TheStopped.body.reason = "signal"
    /\ TheStopped.body.text = StopThread.description
    /\ ConsoleOutputs # {}

\* The client events of the last step other than console output
RECURSIVE Without(_, _)
Without(msgs, name) ==
    IF msgs = << >> THEN << >>
    ELSE (IF Head(msgs).name = name THEN << >> ELSE << Head(msgs) >>)
         \o Without(Tail(msgs), name)
Lifecycle == Without(last.sent, "output")

\* C15: a running state emits "continued" with allThreadsContinued; an exited
\* state emits "exited" with the exit code and then "terminated"; a detached
\* state emits "terminated"; no other lifecycle event is emitted for them.
C15_StateChangeEvents ==
    ProcessStep =>
        /\ Ev.type = "running" =>
               /\ Len(Lifecycle) = 1
               /\ Lifecycle[1].name = "continued"
               /\ Lifecycle[1].body.allThreadsContinued
        /\ Ev.type = "exited" =>
               /\ Len(Lifecycle) = 2
               /\ Lifecycle[1].name = "exited"
               /\ Lifecycle[1].body.exitCode = Ev.exit_code
               /\ Lifecycle[2].name = "terminated"
        /\ Ev.type = "detached" =>
               /\ Len(Lifecycle) = 1
               /\ Lifecycle[1].name = "terminated"

\* C15 witness: the exit of the process with code 1 was reported
C15_Witness_Exited ==
    /\ ProcessStep /\ Ev.type = "exited" /\ Ev.exit_code = 1
    /\ Len(Lifecycle) = 2 /\ Lifecycle[1].body.exitCode = 1

\* C16: a stopped state event flagged as restarted emits no stopped event; each
\* stopped (not restarted) or crashed state event emits exactly one.
C16_OneStoppedEventPerStop ==
    ProcessStep =>
        Cardinality(StoppedEvents) = IF StopHandled THEN 1 ELSE 0

\* C16 witness: a restarted stop was handled without a stopped event
C16_Witness_RestartedIgnored ==
    /\ ProcessStep /\ Ev.type = "stopped" /\ Ev.restarted
    /\ last.sent = << >>

\* The breakpoint event the last step handled
BreakpointStep == last.op = "notify_breakpoint"
BreakpointReason(type) ==
    CASE type = "added" -> "new" [] type = "resolved" -> "changed" [] OTHER -> "removed"

\* C17: an added event registers a BreakpointInfo and emits a breakpoint event
\* with reason "new"; locations-resolved emits "changed" and leaves the registry
\* as it is; removed emits "removed" with the id and drops the BreakpointInfo,
\* also for an id that has no BreakpointInfo: the handler ends normally.
C17_BreakpointEventsNormalized ==
    BreakpointStep =>
        /\ last.exc = NoExc /\ ~last.escaped
        /\ Len(last.sent) = 1
        /\ last.sent[1].name = "breakpoint"
        /\ last.sent[1].body.reason = BreakpointReason(last.arg.event.type)
        /\ last.sent[1].body.breakpoint.id = last.arg.event.id
        /\ last.arg.event.type = "added" => last.arg.event.id \in DOMAIN breakpoints
        /\ last.arg.event.type = "removed" => last.arg.event.id \notin DOMAIN breakpoints

\* C18 (step): a breakpoint-set request adds no notification to the queue of the
\* event normalizer and sends no breakpoint event, and listens again afterwards.
C18_Step ==
    last'.op \in BpRequests =>
        /\ event_queue' = event_queue
        /\ \A i \in DOMAIN last'.sent : last'.sent[i].name # "breakpoint"
        /\ bp_listener' = bp_listener

\* C18: the breakpoint-change notifications the backend generates while a
\* setBreakpoints, setFunctionBreakpoints or setExceptionBreakpoints request
\* reconciles never reach the event normalizer, during the request or after it.
C18_ReconcileEventsSuppressed == [][C18_Step]_vars

\* C18 witness: a setBreakpoints request that deleted one breakpoint and created
\* another while the listener was registered has left the queue empty
C18_Witness_CreateAndDelete ==
    /\ last.op = "setBreakpoints"
    /\ Calls("RemoveListener") = 1
    /\ Calls("BreakpointDelete") = 1 /\ Calls("BreakpointCreateByLocation") = 1
    /\ event_queue = << >>
    /\ bp_listener

\* The last step was a lost connection / an explicit disconnect request
LostStep == last.op = "connection_lost"
\* The number of Kill or Detach calls of the last step
Released == Calls("Kill") + Calls("Detach")

\* C19: a lost connection does what a disconnect request does in every state
\* of the session: the exit commands run, a live process is killed or
\* detached, process and target are cleared and the event loop is stopped.
C19_ConnectionLossIsDisconnect ==
    LostStep =>
        /\ ~last.escaped
        /\ Calls("HandleCommand") = Len(last.arg.launch_args.exitCommands)
        /\ Released = (IF Live(last.arg.process) THEN 1 ELSE 0)
        /\ process = "None" /\ ~target
        /\ event_loop = "stopped"

\* C20 (step): a disconnect request stops the event loop, and once the loop is
\* stopped no completion callback is invoked and the loop stays stopped.
C20_Step ==
    /\ last'.op = "disconnect" => event_loop' = "stopped"
    /\ event_loop = "stopped" => cb_calls' = cb_calls /\ event_loop' = "stopped"

FreshResolution ==
    /\ last.op = "map_filespec_to_local"
    /\ last.arg.filespec.valid
    /\ ~last.arg.cached
\* The rules in use at that resolution, the normalized path and the first rule
\* that matches it (0: none)
RulesUsed == last.arg.source_map.rules
NormalizedPath == normpath(last.arg.filespec.fullpath)
DecidingRule ==
    IF \E i \in DOMAIN RulesUsed : Matches(RulesUsed[i].remote, NormalizedPath)
    THEN CHOOSE i \in DOMAIN RulesUsed :
             /\ Matches(RulesUsed[i].remote, NormalizedPath)
             /\ \A j \in 1..(i - 1) : ~Matches(RulesUsed[j].remote, NormalizedPath)
    ELSE 0

\* C21: resolving a valid file location whose path matches a remap rule with a
\* null local prefix returns null without raising, whether missing sources are
\* suppressed or not.
C21_NullPrefixGivesNoSource ==
    (FreshResolution /\ DecidingRule # 0 /\ RulesUsed[DecidingRule].local.none) =>
        last.exc = NoExc /\ last.arg.value = NonePath

\* What the remap rules decide for the path, and what the resolution returns
\* once missing sources are suppressed
Decided ==
    IF DecidingRule = 0 THEN LocalPath(NormalizedPath)
    ELSE IF RulesUsed[DecidingRule].local.none THEN NonePath
    ELSE LocalPath(normpath(RulesUsed[DecidingRule].local.path
                            \o SubSeq(NormalizedPath,
                                      Len(RulesUsed[DecidingRule].remote) + 1,
                                      Len(NormalizedPath))))
Suppressed(result) ==
    IF ~result.none /\ suppress_missing_sources /\ result.path \notin files
    THEN NonePath ELSE result

\* C22: an uncached resolution applies the remap rules in order and the first
\* matching rule alone decides the result, its local prefix taking the place of
\* the matched remote prefix; without a matching rule the normalized path is
\* the result; the result is null when missing sources are suppressed and no
\* local file exists at the resolved path.
C22_FirstMatchingRuleDecides ==
    FreshResolution => last.exc = NoExc /\ last.arg.value = Suppressed(Decided)

\* C23 (step): no step removes or changes a cache entry, and a resolution of a
\* cached file spec returns the cached result.
C23_Step ==
    /\ \A key \in DOMAIN filespec_cache :
           key \in DOMAIN filespec_cache' /\ filespec_cache'[key] = filespec_cache[key]
    /\ (last'.op = "map_filespec_to_local" /\ last'.arg.cached) =>
           /\ last'.exc = NoExc
           /\ last'.arg.value = filespec_cache[CacheKey(last'.arg.filespec)]

\* C23: once a (directory, filename) pair has been resolved, every later
\* resolution of it returns the same result, a cached null included, whatever
\* happens to the source map, to the files or to the session afterwards.
C23_CacheIsStable == [][C23_Step]_vars

\* C23 witness: a cached result was returned that a resolution from scratch,
\* with the present launch configuration and files, would not give
C23_Witness_StaleResultKept ==
    /\ last.op = "map_filespec_to_local"
    /\ last.arg.cached
    /\ last.arg.value #
           map_filespec_to_local(NoSourceMap, << >>, suppress_missing_sources, files,
                                 launch_args, last.arg.filespec).value

\* The backend breakpoint id has an enabled location in the file path
HasLocationIn(id, path) ==
    /\ id \in DOMAIN backend_bps
    /\ \E i \in DOMAIN backend_bps[id].locs :
           backend_bps[id].locs[i].enabled /\ backend_bps[id].locs[i].path = path

\* C24: every entry of a setBreakpoints response for a source file says
\* verified=true, with the resolved source and line, exactly when the backend
\* breakpoint has an enabled location in the requested file, and
\* verified=false otherwise, for new and for reused breakpoints.
C24_ExplicitVerification ==
    (Reconciling /\ last.exc = NoExc) =>
        \A i \in DOMAIN last.sent[Len(last.sent)].body.breakpoints :
            LET entry == last.sent[Len(last.sent)].body.breakpoints[i]
            IN IF HasLocationIn(entry.id, last.arg.source.path)
               THEN /\ entry.verified = "True"
                    /\ entry.source = last.arg.source.path
                    /\ entry.line = last.arg.breakpoints[i].line
               ELSE entry.verified = "False"

\* The last step was a setFunctionBreakpoints request of a launched debug
\* session that ended normally
FnReconciled ==
    /\ last.op = "setFunctionBreakpoints"
    /\ launch_args.set /\ ~launch_args.noDebug /\ target
    /\ last.exc = NoExc

\* C25: setFunctionBreakpoints deletes the names absent from the request,
\* creates the names not yet present, keeps the id of the names present in
\* both, and gives every requested function breakpoint, new or reused, the
\* condition, hit count and log message of the request.
C25_FunctionBreakpointsReapplied ==
    FnReconciled =>
        /\ \A n \in Present(last.arg.old) \ ReqNames(last.arg.breakpoints) :
               fn_breakpoints[n] = 0 /\ CallsWith("BreakpointDelete", last.arg.old[n]) = 1
        /\ \A n \in Present(last.arg.old) \cap ReqNames(last.arg.breakpoints) :
               fn_breakpoints[n] = last.arg.old[n]
        /\ \A n \in ReqNames(last.arg.breakpoints) \ Present(last.arg.old) :
               fn_breakpoints[n] \in DOMAIN backend_bps \ {last.arg.old[m] : m \in FnNames}
        /\ \A i \in DOMAIN last.arg.breakpoints :
               LET req == last.arg.breakpoints[i]
                   id == fn_breakpoints[req.name]
               IN /\ id \in DOMAIN breakpoints /\ id \in DOMAIN backend_bps
                  /\ backend_bps[id].condition = WantedNative(req)
                  /\ breakpoints[id].condition = WantedPredicate(req)
                  /\ breakpoints[id].ignore_count = WantedIgnoreCount(req)
                  /\ breakpoints[id].log_message = req.logMessage

\* The number of breakpoints the filters ask for: one for C++ throw and catch
\* together, one for Rust panics
FilterBps(filters) ==
    (IF filters \cap {"cpp_throw", "cpp_catch"} # {} THEN 1 ELSE 0)
    + (IF "rust_panic" \in filters THEN 1 ELSE 0)
\* The positions of the backend calls f of a step
CallsAt(calls, f) == {i \in DOMAIN calls : calls[i].f = f}

\* C26 (step): a setExceptionBreakpoints request deletes every exception
\* breakpoint, then creates one set for the filters; afterwards the exception
\* breakpoints are the ones just created, and the others are as they were.
C26_Step ==
    (/\ last'.op = "setExceptionBreakpoints" /\ last'.exc = NoExc
     /\ launch_args.set /\ ~launch_args.noDebug) =>
        /\ \A id \in ExceptionBps(breakpoints) :
               /\ id \notin DOMAIN breakpoints' /\ id \notin DOMAIN backend_bps'
               /\ CallsAt(last'.calls, "BreakpointDelete")
                      \cap {i \in DOMAIN last'.calls : last'.calls[i].arg = id} # {}
        /\ ExceptionBps(breakpoints') = next_bp_id..(next_bp_id' - 1)
        /\ ExceptionBps(breakpoints') \subseteq DOMAIN backend_bps'
        /\ Cardinality(ExceptionBps(breakpoints')) = FilterBps(last'.arg.filters)
        /\ \A i \in CallsAt(last'.calls, "BreakpointDelete"),
              j \in CallsAt(last'.calls, "BreakpointCreateForException")
                    \cup CallsAt(last'.calls, "BreakpointCreateByName") : i < j
        /\ \A id \in DOMAIN breakpoints \ ExceptionBps(breakpoints) :
               id \in DOMAIN breakpoints' /\ breakpoints'[id] = breakpoints[id]
        /\ \A id \in DOMAIN backend_bps \ ExceptionBps(breakpoints) :
               id \in DOMAIN backend_bps' /\ backend_bps'[id] = backend_bps[id]
        /\ line_breakpoints' = line_breakpoints
        /\ fn_breakpoints' = fn_breakpoints

\* C26: every setExceptionBreakpoints request first deletes all breakpoints
\* flagged exception_bp and then creates the full set for the requested
\* filters; none is carried over, and no line or function breakpoint is
\* deleted or modified.
C26_ExceptionBreakpointsReplaced == [][C26_Step]_vars

\* C26 witness: a request replaced an exception breakpoint by a new one while
\* a function breakpoint with stop settings existed
C26_Witness_Replaced ==
    /\ last.op = "setExceptionBreakpoints"
    /\ Calls("BreakpointDelete") = 1
    /\ Calls("BreakpointCreateForException") = 1
    /\ \E n \in FnNames :
           /\ fn_breakpoints[n] \in DOMAIN breakpoints
           /\ breakpoints[fn_breakpoints[n]].ignore_count = 2

\* The last step evaluated an expression (not a debugger command) of a session
\* with a process, in a watch or hover context
Evaluating ==
    /\ last.op = "evaluate" /\ last.arg.process # "None"
    /\ last.arg.context = "repl" => Head(last.arg.expression) = "?"
\* The claimed suffixes and their formats; the format and the expression the
\* claim asks for
SuffixFormat(c) ==
    CASE c \in {"x", "h"} -> "hex" [] c = "d" -> "decimal" [] c = "o" -> "octal"
      [] c = "b" -> "binary" [] c = "f" -> "float" [] c = "p" -> "pointer"
      [] c = "u" -> "unsigned" [] c = "s" -> "cstring" [] c = "y" -> "bytes"
      [] c = "Y" -> "bytes_with_ascii" [] OTHER -> "none"
HasSuffix(expr) ==
    /\ Len(expr) >= 2 /\ expr[Len(expr) - 1] = ","
    /\ SuffixFormat(expr[Len(expr)]) # "none"
AskedFormat(expr, global_format) ==
    IF HasSuffix(expr) THEN SuffixFormat(expr[Len(expr)]) ELSE global_format
AskedExpr(expr) == IF HasSuffix(expr) THEN SubSeq(expr, 1, Len(expr) - 2) ELSE expr

\* C27: a watch or hover evaluation of an expression with a format suffix
\* evaluates the expression without the suffix and renders the result in the
\* suffix's format, and leaves the global display format as it is.
C27_FormatSuffixForOneEvaluation ==
    (Evaluating /\ last.arg.context \in {"watch", "hover"}
                /\ HasSuffix(last.arg.expression) /\ last.arg.outcome # "error") =>
        /\ last.sent[Len(last.sent)].body.result =
               Rendered(AskedExpr(last.arg.expression),
                        AskedFormat(last.arg.expression,
                                    last.arg.display_settings.global_format))
        /\ display_settings = last.arg.display_settings

\* The console output events and the responses of the last step
ConsoleEvents == {i \in DOMAIN last.sent : last.sent[i].name = "output"}
ErrorResponses ==
    {i \in DOMAIN last.sent :
        /\ last.sent[i].type = "response" /\ ~last.sent[i].success
        /\ last.sent[i].body.kind = "error"}

\* C28: an evaluation error in hover context sends no console output and a
\* structured error response; in repl context it is written to the console;
\* in watch context, or without a context, it gives a structured error
\* response and no console output.
C28_ErrorByContext ==
    (Evaluating /\ last.arg.outcome = "error") =>
        /\ Cardinality(Responses) = 1
        /\ IF last.arg.context = "repl"
           THEN /\ Cardinality(ConsoleEvents) = 1
                /\ \A i \in ConsoleEvents : last.sent[i].body.category = "stderr"
           ELSE ConsoleEvents = {} /\ Cardinality(ErrorResponses) = 1

\* C28 witness: a hover evaluation failed without console output
C28_Witness_SilentHover ==
    /\ Evaluating /\ last.arg.outcome = "error" /\ last.arg.context = "hover"
    /\ ConsoleEvents = {}

\* The requests of the last setBreakpoints pass whose condition is not native
\* and does not compile
FailsToCompile(req) ==
    /\ Truthy(req.condition)
    /\ get_expression_type(req.condition, launch_args).ty # NATIVE
    /\ make_expression_bpcond(get_expression_type(req.condition, launch_args).ty,
                              get_expression_type(req.condition, launch_args).expr) = NoCond

\* C29: when the non-native condition of a requested breakpoint does not
\* compile, an error is written to the console and the breakpoint is still
\* there, created or kept, with no condition at all: neither a compiled
\* predicate nor a condition of the backend, so that it stops unconditionally.
C29_UncompiledConditionStopsAlways ==
    (Reconciling /\ last.exc = NoExc) =>
        \A i \in DOMAIN last.arg.breakpoints :
            FailsToCompile(last.arg.breakpoints[i]) =>
                LET id == line_breakpoints[last.arg.source.path]
                                          [last.arg.breakpoints[i].line]
                IN /\ \E k \in ConsoleEvents :
                          last.sent[k].body =
                              console_err("Could not set breakpoint condition")[1].body
                   /\ id \in DOMAIN breakpoints /\ id \in DOMAIN backend_bps
                   /\ breakpoints[id].condition = NoCond
                   /\ backend_bps[id].condition = ""

\* The last step was a setBreakpoints request for a source with the adapterData
\* of an earlier response and no live disassembly view
PassedBack ==
    /\ last.op = "setBreakpoints"
    /\ last.arg.source.sourceReference # LiveRef
    /\ last.arg.source.adapterData # NoAD

\* C30: a request that passes back the adapterData of a live disassembly view
\* for lines the view had breakpoints at resolves every such line to the
\* address the live view gave for it, and creates each new breakpoint at that
\* address.
C30_AdapterDataRoundTrip ==
    (PassedBack /\ \A l \in ReqLines(last.arg.breakpoints) :
                       HasLine(last.arg.source.adapterData, l)) =>
        /\ last.exc = NoExc
        /\ \A l \in ReqLines(last.arg.breakpoints) :
               LET id == line_breakpoints[last.arg.source.path][l]
               IN /\ id \in DOMAIN breakpoints /\ id \in DOMAIN backend_bps
                  /\ breakpoints[id].address = address_by_line_num(l)
                  /\ backend_bps[id].kind = "address"
                  /\ last.arg.old[l] = 0 =>
                         CallsWith("BreakpointCreateByAddress",
                                   address_by_line_num(l)) = 1
        /\ Calls("BreakpointCreateByAddress") =
               Cardinality({l \in ReqLines(last.arg.breakpoints) : last.arg.old[l] = 0})

\* C30 witness: line 15 of a table of two lines was passed back and its
\* breakpoint created at the view's address
C30_Witness_CreatedAtSavedAddress ==
    /\ PassedBack /\ last.exc = NoExc
    /\ Cardinality(last.arg.source.adapterData.lines) = 2
    /\ CallsWith("BreakpointCreateByAddress", address_by_line_num(15)) = 1

\* The last step handled a stdout or stderr notification; the output events it
\* sent, and the bytes the stream held in all
Draining ==
    /\ last.op = "process_event"
    /\ last.arg.event.kind = "process" /\ last.arg.event.type \in {"stdout", "stderr"}
Drained ==
    IF last.arg.event.stream.avail = 0 THEN 0
    ELSE last.arg.event.stream.avail + last.arg.event.late

\* C31: a stdout or stderr notification sends nothing but output events of the
\* stream's category, one per chunk read; every chunk has between 1 and 1024
\* bytes, the chunks are consecutive pieces of the stream in read order, and
\* together they are all the stream held when a read returned empty.
C31_StreamDrainedInChunks ==
    Draining =>
        /\ last.exc = NoExc
        /\ \A i \in DOMAIN last.sent :
               /\ last.sent[i].type = "event" /\ last.sent[i].name = "output"
               /\ last.sent[i].body.category = last.arg.event.type
               /\ last.sent[i].body.len \in 1..ReadSize
               /\ last.sent[i].body.at =
                      IF i = 1 THEN last.arg.event.stream.pos
                      ELSE last.sent[i - 1].body.at + last.sent[i - 1].body.len
        /\ (last.sent = << >>) = (Drained = 0)
        /\ last.sent # << >> =>
               last.sent[Len(last.sent)].body.at + last.sent[Len(last.sent)].body.len
                   = last.arg.event.stream.pos + Drained

\* C31 witness: a stream of more than two reads was drained
C31_Witness_ThreeChunks ==
    Draining /\ Len(last.sent) = 3 /\ last.sent[3].body.len = 1

\* C32: at most one step is executing against the engine's state at any time:
\* a handler of the event loop and a breakpoint-hit callback are never both
\* inside the engine's code.
C32_OneStepAtATime == Cardinality(executing) <= 1

\* The last step was a request the backend reported a failure of: a
\* configurationDone whose launch or attach failed, a continue whose
\* process.Continue() failed, a pause whose process.Stop() failed
LaunchRefused ==
    /\ last.op = "configurationDone" /\ last.arg # NoBody
    /\ last.arg.failed
ResumeRefused ==
    \/ last.op = "continue" /\ Calls("Continue") = 1 /\ ~last.arg.resumed
    \/ last.op = "pause" /\ Calls("Stop") = 1 /\ last.arg.fail
\* The responses of the last step that are structured errors shown to the user
\* with the message text
ErrorsSaying(text) ==
    {i \in Responses :
        /\ ~last.sent[i].success
        /\ last.sent[i].body = ErrorBody(text)}

\* C33 as stated: the response to a launch, attach, continue or pause the
\* backend refused is a structured error with the backend's own error text.
C33_BackendTextInResponse ==
    (LaunchRefused \/ ResumeRefused) => ErrorsSaying(GetCString) # {}

\* C33, amended: a refused continue or pause is answered with a structured
\* error whose message is the backend's error text; a refused launch or attach
\* writes the backend's error text to the console and is answered with a
\* structured error whose message is the fixed text of the operation.
C33_BackendFailureSurfaced ==
    /\ ResumeRefused =>
           /\ Cardinality(Responses) = 1
           /\ Cardinality(ErrorsSaying(GetCString)) = 1
    /\ LaunchRefused =>
           /\ \E i \in ConsoleEvents :
                  last.sent[i].body = console_err(GetCString)[1].body
           /\ ErrorsSaying(GetCString) = {}
           /\ Cardinality(ErrorsSaying(IF last.arg.kind = "launch" THEN LaunchFailed
                                        ELSE AttachFailed)) = 1
           /\ \A i \in ErrorsSaying(LaunchFailed) \cup ErrorsSaying(AttachFailed) :
                  last.sent[i].name = LaunchCommand(last.arg.kind)

\* C33 witness: a launch the backend refused was answered with the fixed text
C33_Witness_LaunchRefused ==
    LaunchRefused /\ last.arg.kind = "launch" /\ ErrorsSaying(LaunchFailed) # {}

\* The handles a response gives out: the ids of frames and scopes and the
\* variablesReference of a value
GivenOut(sent) ==
    UNION {IF sent[i].body.kind \in {"stackFrames", "scopes", "variables"}
           THEN {sent[i].body.ids[k] : k \in DOMAIN sent[i].body.ids}
           ELSE IF sent[i].body.kind = "result" THEN {sent[i].body.variablesReference}
           ELSE {} :
           i \in {j \in DOMAIN sent : sent[j].type = "response" /\ sent[j].success}}
\* A step keeps the object of every handle that stays in the tree within one
\* generation; handle 0 is no handle of the tree; a value without children is
\* given 0, and every frame, scope and composite value a handle of the tree.
C34_Step ==
    /\ 0 \notin DOMAIN var_refs'.objs
    /\ \A h \in DOMAIN var_refs.objs \cap DOMAIN var_refs'.objs :
           var_refs'.objs[h].epoch = var_refs.objs[h].epoch =>
               var_refs'.objs[h].obj = var_refs.objs[h].obj
    /\ last'.op \in {"stackTrace", "scopes", "variables", "evaluate"} =>
           IF last'.op = "evaluate"
              /\ (last'.arg.outcome = "scalar" \/ last'.arg.process = "None")
           THEN GivenOut(last'.sent) = {0}
           ELSE GivenOut(last'.sent) \subseteq DOMAIN var_refs'.objs

\* C34: within one handle generation no handle comes to stand for another
\* live object than the one it was given out for; a value without children is
\* given handle 0, which is never the handle of a frame, scope or composite
\* value.
C34_NoSharedHandle == [][C34_Step]_vars

\* C35: a request that does not resume the inferior, and a backend event, leaves
\* every handle that was out resolvable, and resolving to the same object.
NonResuming ==
    {"setBreakpoints", "setFunctionBreakpoints", "setExceptionBreakpoints", "threads",
     "stackTrace", "scopes", "variables", "evaluate", "displaySettings", "pause",
     "process_event", "notify_breakpoint"}
StillResolves(h) ==
    /\ h \in DOMAIN var_refs'.objs
    /\ var_refs'.objs[h].obj = var_refs.objs[h].obj
C35_Step ==
    last'.op \in NonResuming => \A h \in DOMAIN var_refs.objs : StillResolves(h)
C35_HandlesOutliveInspection == [][C35_Step]_vars

\* C36: a launch or attach request that succeeds creates the target, emits
\* "initialized" and sends no response; there is no process until
\* configurationDone, which launches or attaches and then sends the deferred
\* response; a setBreakpoints handled in between (in a session that debugs)
\* sets its breakpoints in the target while there is no process yet, and
\* leaves it so; and when the process is stopped after
\* the launch, a "stopped" event follows the launch response.
LaunchResponseAt(sent, i) ==
    /\ sent[i].type = "response"
    /\ sent[i].name = LaunchCommand(launch_args.kind)
    /\ sent[i].seq = launch_args.response
StoppedEventAt(sent, i) == sent[i].type = "event" /\ sent[i].name = "stopped"
C36_Step ==
    /\ (last'.op \in LaunchOps /\ last'.exc = NoExc) =>
           /\ target'
           /\ process' = process
           /\ \E i \in DOMAIN last'.sent :
                  last'.sent[i].type = "event" /\ last'.sent[i].name = "initialized"
           /\ \A i \in DOMAIN last'.sent : last'.sent[i].type # "response"
    /\ (process = "None" /\ process' # "None") =>
           /\ last'.op = "configurationDone"
           /\ launch_args.set
           /\ last'.calls # << >>
           /\ \E i \in DOMAIN last'.sent : LaunchResponseAt(last'.sent, i)
    /\ (last'.op = "setBreakpoints" /\ launch_args.set /\ process = "None"
        /\ last'.exc = NoExc /\ last'.arg.reconciled) =>
           /\ process' = "None"
           /\ \A l \in ReqLines(last'.arg.breakpoints) :
                  line_breakpoints'[FileIdOf(last'.arg.source)][l] \in DOMAIN backend_bps'
    /\ (last'.op = "configurationDone" /\ process' = "stopped") =>
           \E i, j \in DOMAIN last'.sent :
               /\ i < j
               /\ LaunchResponseAt(last'.sent, i)
               /\ StoppedEventAt(last'.sent, j)
C36_TwoPhaseLaunch == [][C36_Step]_vars

\* C36 witness: a breakpoint was set between launch and configurationDone, and
\* configurationDone launched a process that is stopped.
C36_Witness_StoppedAfterLaunch ==
    /\ last.op = "configurationDone"
    /\ process = "stopped"
    /\ \E l \in Lines : line_breakpoints["a.c"][l] \in DOMAIN backend_bps
    /\ \E i \in DOMAIN last.sent : StoppedEventAt(last.sent, i)

\* C37: every breakpoint id in a per-file line index or in the function index
\* has a BreakpointInfo in the registry.
IndexedIds ==
    UNION {{line_breakpoints[f][l] : l \in Present(line_breakpoints[f])} : f \in FileIds}
    \cup {fn_breakpoints[n] : n \in Present(fn_breakpoints)}
C37_IndexedAreRegistered == IndexedIds \subseteq DOMAIN breakpoints

\* C38: setBreakpoints for a source leaves the line index of every other
\* source, the function index and every BreakpointInfo that does not belong to
\* a line of that source as they were; setFunctionBreakpoints leaves every
\* line index and every exception breakpoint as they were.
IdsOfFile(f) == {line_breakpoints[f][l] : l \in Present(line_breakpoints[f])}
Untouched(ids) ==
    \A id \in ids : id \in DOMAIN breakpoints' /\ breakpoints'[id] = breakpoints[id]
C38_Step ==
    /\ last'.op = "setBreakpoints" =>
           /\ \A f \in FileIds \ {last'.arg.source.path} :
                  line_breakpoints'[f] = line_breakpoints[f]
           /\ fn_breakpoints' = fn_breakpoints
           /\ Untouched(DOMAIN breakpoints \ IdsOfFile(last'.arg.source.path))
    /\ last'.op = "setFunctionBreakpoints" =>
           /\ line_breakpoints' = line_breakpoints
           /\ Untouched(ExceptionBps(breakpoints))
C38_RequestsAreIsolated == [][C38_Step]_vars

\* C38 witness: a request for b.c has deleted a breakpoint of b.c while a.c and
\* an exception filter have breakpoints.
C38_Witness_OtherKindsPresent ==
    /\ last.op = "setBreakpoints"
    /\ last.arg.source.path = "b.c"
    /\ Present(last.arg.old) \ Present(line_breakpoints["b.c"]) # {}
    /\ Present(line_breakpoints["a.c"]) # {}
    /\ ExceptionBps(breakpoints) # {}

\* C39: a breakpoint-set request that stopped listening to the backend's
\* breakpoint events listens again when it ends, whether it returned or raised:
\* registering the listener is the last thing it asks of the backend.
C39_EventsEnabledAgain ==
    (last.op \in BpRequests /\ Calls("RemoveListener") > 0) =>
        /\ bp_listener
        /\ Calls("RemoveListener") = 1 /\ Calls("AddListener") = 1
        /\ last.calls[1].f = "RemoveListener"
        /\ last.calls[Len(last.calls)].f = "AddListener"

\* C39 witness: a setBreakpoints request raised in the middle of its
\* reconciliation, after it had stopped listening
C39_Witness_RaisedMidway ==
    /\ last.op = "setBreakpoints"
    /\ last.exc # NoExc
    /\ Calls("RemoveListener") = 1
    /\ Len(last.calls) > 2
    /\ bp_listener

\* C40: after each stop notification the known threads are the threads of the
\* backend's process; a thread event says "exited" only for a thread that was
\* known and "started" only for one that was not, once each, and the known
\* threads change by exactly these (so the events of one thread id alternate
\* started, exited, started, ...); and the thread events of a stop come before
\* its "stopped" event.
ThreadEventsAt(sent, reason) ==
    {i \in DOMAIN sent : /\ sent[i].type = "event"
                         /\ sent[i].name = "thread"
                         /\ sent[i].body.reason = reason}
Announced(sent, reason) == {sent[i].body.threadId : i \in ThreadEventsAt(sent, reason)}
StopNotified(L) ==
    \/ L.op = "process_event"
       /\ \/ L.arg.event.type = "crashed"
          \/ L.arg.event.type = "stopped" /\ ~L.arg.event.restarted
    \/ L.op = "configurationDone" /\ \E i \in DOMAIN L.sent : StoppedEventAt(L.sent, i)
C40_Step ==
    /\ (last'.op = "process_event" /\ StopNotified(last')) =>
           known_threads' = ThreadIds(last'.arg.event.proc)
    /\ Announced(last'.sent, "exited") = known_threads \ known_threads'
    /\ Announced(last'.sent, "started") = known_threads' \ known_threads
    /\ \A reason \in {"exited", "started"} :
           Cardinality(ThreadEventsAt(last'.sent, reason))
               = Cardinality(Announced(last'.sent, reason))
    /\ \A i \in ThreadEventsAt(last'.sent, "exited") \cup ThreadEventsAt(last'.sent, "started") :
           /\ StopNotified(last')
           /\ \E j \in DOMAIN last'.sent : i < j /\ StoppedEventAt(last'.sent, j)
           /\ \A j \in DOMAIN last'.sent : StoppedEventAt(last'.sent, j) => i < j
C40_ThreadsFollowStops == [][C40_Step]_vars

\* C40 witness: a stop at which thread 2, started at an earlier stop, is gone
\* while thread 1 is still there
C40_Witness_ThreadExited ==
    /\ last.op = "process_event"
    /\ StopNotified(last)
    /\ Announced(last.sent, "exited") = {2}
    /\ known_threads = {1}

====
